---- MODULE Spec2Model ----
(***************************************************************************)
(* A model of jcli: the command tree (Command), the application wrapper    *)
(* (Cli), the per-call flag binding (flagSet.parseFlags) and the           *)
(* resolution algorithm (Command.run).                                     *)
(*                                                                         *)
(* Pointers are indices: a *Command is an index into cmds, 0 is nil.       *)
(* Go values of the four flag kinds are kept as the text Go's flag         *)
(* package prints and parses ("true", "false", "5", ...), tagged with      *)
(* their kind.                                                             *)
(***************************************************************************)
EXTENDS Integers, Sequences, FiniteSets, TLC

VARIABLES
    cmds,     \* the Command objects, in creation order; cmds[1] is the root
    cli,      \* the Cli object
    heap,     \* storage cells: caller-owned cells and cells allocated by parseFlags
    stdout,   \* what was written to os.Stdout
    calls,    \* the calls of Run / RunBuffer, each with its context and position
    regs      \* history of addFlag calls, per node (ghost)

vars == <<cmds, cli, heap, stdout, calls, regs>>

-----------------------------------------------------------------------------
(* Bounds of the model *)

\* longest argument list handed to Run
MaxArgs == 3
\* number of addFlag calls explored in the flag specification
MaxFlagRegs == 2
\* longest argument list in the flag specification
MaxFlagArgs == 2
\* longest argument list of a call in the concurrent specification
MaxConcArgs == 2
\* number of nodes of the trees built in the tree specification
MaxTreeNodes == 12
\* up to this many nodes, NewSubCommand is tried on every existing node
MaxBranch == 2

\* part_004 (command.go) line 36
maxDepth == 10

-----------------------------------------------------------------------------
(* Maps with a dynamic key set (Go maps) *)

EmptyMap == [k \in {} |-> 0]

MapGet(m, k, nil) == IF k \in DOMAIN m THEN m[k] ELSE nil

MapPut(m, k, v) == [x \in DOMAIN m \cup {k} |-> IF x = k THEN v ELSE m[x]]

-----------------------------------------------------------------------------
(* Command tree *)

\* NewCommand: a node with no parent, no wrapper, no children, no action
NewCommand(nm) ==
    [ app             |-> FALSE,
      parent          |-> 0,
      name            |-> nm,
      longdescription |-> "",
      subCommands     |-> <<>>,
      subCommandsMap  |-> EmptyMap,
      actionCallback  |-> FALSE,
      hidden          |-> FALSE,
      flags           |-> EmptyMap ]

\* AddCommand on the tree cs: c.AddCommand(command)
AddCommand(cs, c, command) ==
    [cs EXCEPT
        ![command].parent = c,
        ![c].subCommands = Append(cs[c].subCommands, command),
        ![c].subCommandsMap = MapPut(cs[c].subCommandsMap, cs[command].name, command)]

\* c.NewSubCommand(name, description): the new node is Len(cs) + 1
NewSubCommand(cs, c, nm) ==
    AddCommand(Append(cs, NewCommand(nm)), c, Len(cs) + 1)

\* NewCli: the root command, the only node with app set
NewCli(nm) ==
    << [NewCommand(nm) EXCEPT !.app = TRUE] >>

\* the ancestor walk of commandPath: i steps left, pth accumulated so far
RECURSIVE commandPathLoop(_, _, _, _)
commandPathLoop(cs, c, i, pth) ==
    IF i > 0 /\ cs[c].parent # 0
    THEN LET p == cs[c].parent
         IN  commandPathLoop(cs, p, i - 1,
                 IF cs[p].name # "" THEN cs[p].name \o " " \o pth ELSE pth)
    ELSE pth

\* commandPath with each ancestor's name put after the path instead of before it
RECURSIVE commandPathLeafFirstLoop(_, _, _, _)
commandPathLeafFirstLoop(cs, c, i, pth) ==
    IF i > 0 /\ cs[c].parent # 0
    THEN LET p == cs[c].parent
         IN  commandPathLeafFirstLoop(cs, p, i - 1,
                 IF cs[p].name # "" THEN pth \o " " \o cs[p].name ELSE pth)
    ELSE pth

commandPathLeafFirst(cs, c) == commandPathLeafFirstLoop(cs, c, maxDepth, cs[c].name)

\* Command.commandPath
commandPath(cs, c) == commandPathLoop(cs, c, maxDepth, cs[c].name)

\* the ancestor walk of getCli: TRUE when a node with app set is met
RECURSIVE getCliLoop(_, _, _)
getCliLoop(cs, c, i) ==
    IF i > 0 /\ c # 0
    THEN IF cs[c].app THEN TRUE ELSE getCliLoop(cs, cs[c].parent, i - 1)
    ELSE FALSE

\* getCli that finds the wrapper from every node
getCliAnywhere(cs, c) == TRUE

\* getCli with a walk one node longer
getCliOneMore(cs, c) == getCliLoop(cs, c, maxDepth + 1)

\* Command.getCli: there is one Cli, so the result is whether it was found
getCli(cs, c) == getCliLoop(cs, c, maxDepth)

-----------------------------------------------------------------------------
(* Flag schema *)

Kinds == {"string", "int", "float", "bool"}

\* a Go value of one of the four kinds
Val(kind, v) == [kind |-> kind, v |-> v]

\* a storage cell: call = 0 for a cell the caller owns, else the call whose
\* parseFlags allocated it
Addr(call, nm) == [call |-> call, name |-> nm]

NoAddr == Addr(0, "")

\* a typed pointer handed to BoolFlag/StringFlag/...; NilPtr when none is given
Ptr(kind, addr) == [kind |-> kind, addr |-> addr]

NilPtr == Ptr("nil", NoAddr)

\* flagProto
Proto(nm, value, ptr) == [name |-> nm, value |-> value, ptr |-> ptr]

\* addFlag that keeps the declaration a name already has
addFlagKeepingFirst(protos, nm, value, ptr) ==
    IF nm \in DOMAIN protos THEN protos ELSE MapPut(protos, nm, Proto(nm, value, ptr))

\* flagSet.addFlag: fs.protos[name] = &flagProto{...}
addFlag(protos, nm, value, ptr) == MapPut(protos, nm, Proto(nm, value, ptr))

\* flagSet.flagCount
flagCount(protos) == Cardinality(DOMAIN protos)

\* Command.BoolFlag / StringFlag / IntFlag / FloatFlag on the tree cs: the kind
\* of the default is the method's, the pointer is ptrs[0] when given
CommandFlag(cs, c, nm, value, ptr) ==
    [cs EXCEPT ![c].flags = addFlag(cs[c].flags, nm, value, ptr)]

\* Command.Action
CommandAction(cs, c, callback) == [cs EXCEPT ![c].actionCallback = callback]

-----------------------------------------------------------------------------
(* Go's flag package, as parseFlags uses it *)

\* strconv.ParseBool
ParseBoolOk(s) ==
    s \in {"1", "t", "T", "TRUE", "true", "True", "0", "f", "F", "FALSE", "false", "False"}

ParseBool(s) == IF s \in {"1", "t", "T", "TRUE", "true", "True"} THEN "true" ELSE "false"

\* the numerals among the tokens of the model
Numerals == {"0", "1", "5"}

\* Value.Set of the flag kinds: whether the text converts, and the value kept
SetOk(kind, s) ==
    CASE kind = "bool"   -> ParseBoolOk(s)
      [] kind = "int"    -> s \in Numerals
      [] kind = "float"  -> s \in Numerals
      [] OTHER           -> TRUE

SetValue(kind, s) == IF kind = "bool" THEN Val(kind, ParseBool(s)) ELSE Val(kind, s)

\* the shape of one argument as parseOne reads it: dash is "starts with - and
\* is at least two characters", term is the terminator "--"
Tok(dash, term, nm, hasValue, value) ==
    [dash |-> dash, term |-> term, name |-> nm, hasValue |-> hasValue, value |-> value]

Lex(t) ==
    CASE t = "--"         -> Tok(TRUE, TRUE, "", FALSE, "")
      [] t = "--ui"       -> Tok(TRUE, FALSE, "ui", FALSE, "")
      [] t = "-ui"        -> Tok(TRUE, FALSE, "ui", FALSE, "")
      [] t = "--ui=false" -> Tok(TRUE, FALSE, "ui", TRUE, "false")
      [] t = "--fmt"      -> Tok(TRUE, FALSE, "fmt", FALSE, "")
      [] t = "--fmt=json" -> Tok(TRUE, FALSE, "fmt", TRUE, "json")
      [] t = "--n"        -> Tok(TRUE, FALSE, "n", FALSE, "")
      [] t = "--xxx"      -> Tok(TRUE, FALSE, "xxx", FALSE, "")
      [] t = "--help"     -> Tok(TRUE, FALSE, "help", FALSE, "")
      [] t = "-h"         -> Tok(TRUE, FALSE, "h", FALSE, "")
      [] OTHER            -> Tok(FALSE, FALSE, "", FALSE, "")

\* the result of FlagSet.Parse: err is "" on success, h the heap after the
\* writes made so far, args what FlagSet.Args returns
Parsed(err, h, args) == [err |-> err, h |-> h, args |-> args]

\* FlagSet.Parse: parseOne until a non-flag, the terminator or an error.
\* formal maps each defined flag to the typed pointer of its cell; t is the
\* shape of the first argument
RECURSIVE Parse(_, _, _)

\* parseOne once the argument is known to be a flag: look the name up, take
\* the value ("=value", the next argument, or true for a bool flag), set it
ParseFlag(formal, h, t, rest) ==
    IF t.name \notin DOMAIN formal
    THEN IF t.name \in {"help", "h"}
         THEN Parsed("flag: help requested", h, rest)
         ELSE Parsed("flag provided but not defined", h, rest)
    ELSE IF formal[t.name].kind = "bool"
    THEN IF t.hasValue
         THEN IF SetOk("bool", t.value)
              THEN Parse(formal, [h EXCEPT ![formal[t.name].addr] = SetValue("bool", t.value)], rest)
              ELSE Parsed("invalid boolean value", h, rest)
         ELSE Parse(formal, [h EXCEPT ![formal[t.name].addr] = Val("bool", "true")], rest)
    ELSE IF t.hasValue
    THEN IF SetOk(formal[t.name].kind, t.value)
         THEN Parse(formal, [h EXCEPT ![formal[t.name].addr] =
                                 SetValue(formal[t.name].kind, t.value)], rest)
         ELSE Parsed("invalid value", h, rest)
    ELSE IF rest = <<>> THEN Parsed("flag needs an argument", h, rest)
    ELSE IF SetOk(formal[t.name].kind, Head(rest))
         THEN Parse(formal, [h EXCEPT ![formal[t.name].addr] =
                                 SetValue(formal[t.name].kind, Head(rest))], Tail(rest))
         ELSE Parsed("invalid value", h, Tail(rest))

\* parseOne that takes flags after a positional argument too, dropping the
\* positional argument
ParseOneInterspersed(formal, h, args, t, rest) ==
    IF ~t.dash THEN Parse(formal, h, rest)
    ELSE IF t.term THEN Parsed("", h, rest)
    ELSE ParseFlag(formal, h, t, rest)

\* parseOne: a non-flag argument ends the parse and stays in the arguments,
\* the terminator ends it and is dropped
ParseOne(formal, h, args, t, rest) ==
    IF ~t.dash THEN Parsed("", h, args)
    ELSE IF t.term THEN Parsed("", h, rest)
    ELSE ParseFlag(formal, h, t, rest)

Parse(formal, h, args) ==
    IF args = <<>> THEN Parsed("", h, args)
    ELSE ParseOne(formal, h, args, Lex(Head(args)), Tail(args))

-----------------------------------------------------------------------------
(* Per-call flag binding *)

\* BindAddr with one cell per flag name for all calls
BindAddrShared(fp, call) == Addr(0, fp.name)

\* BindAddr with a cell of the call's own even when a pointer was given
BindAddrFresh(fp, call) == Addr(call, fp.name)

\* flagProto.addFlag: the cell a declaration is bound to in a call. The
\* caller's cell when a pointer of the default's type was given, else a cell
\* the flag package allocates for this FlagSet
BindAddr(fp, call) ==
    IF fp.ptr.kind = fp.value.kind THEN fp.ptr.addr ELSE Addr(call, fp.name)

\* the cells parseFlags defines: one per declaration, and the help flag
Formal(protos, call) ==
    [nm \in DOMAIN protos \cup {"help"} |->
        IF nm \in DOMAIN protos
        THEN Ptr(protos[nm].value.kind, BindAddr(protos[nm], call))
        ELSE Ptr("bool", Addr(call, "help"))]

\* defining a flag stores its default in its cell (flag.XxxVar, flag.Xxx)
Defaults(protos, formal, h) ==
    [a \in {formal[nm].addr : nm \in DOMAIN formal} |->
        LET nm == CHOOSE x \in DOMAIN formal : formal[x].addr = a
        IN  IF nm \in DOMAIN protos THEN protos[nm].value ELSE Val("bool", "false")] @@ h

\* flagValues: the name -> cell mapping and the FlagSet (its remaining arguments)
FlagValues(vals, args) == [vals |-> vals, args |-> args]

\* the end of parseFlags: the error, the heap, and the flagValues put in the
\* context on success
ParseResult(formal, p) == [err |-> p.err, h |-> p.h, fv |-> FlagValues(formal, p.args)]

ParseWith(protos, formal, h, args) ==
    ParseResult(formal, Parse(formal, Defaults(protos, formal, h), args))

\* flagSet.parseFlags
parseFlags(protos, call, h, args) == ParseWith(protos, Formal(protos, call), h, args)

-----------------------------------------------------------------------------
(* Execution scope (context.Context) and its accessors *)

\* the keys jcli reads: StdoutKey (dest is "buf" for a writer put by WithStdout,
\* "os" when absent), PrintJsonKey, FlagValuesKey (fv is <<>> when absent)
Context(dest, json, fv) == [dest |-> dest, json |-> json, fv |-> fv]

\* getValuePointer: the typed pointer of the flag, NilPtr when there is none
getValuePointer(ctx, nm) ==
    IF ctx.fv # <<>> /\ nm \in DOMAIN ctx.fv[1].vals THEN ctx.fv[1].vals[nm] ELSE NilPtr

\* StringFlag / IntFlag / FloatFlag / BoolFlag: the cell's value when the flag
\* is there and of the accessor's kind, else the caller's fallback
FlagOf(kind, ctx, h, nm, otherwise) ==
    LET ptr == getValuePointer(ctx, nm)
    IN  IF ptr.kind = kind THEN h[ptr.addr].v ELSE otherwise

StringFlag(ctx, h, nm, otherwise) == FlagOf("string", ctx, h, nm, otherwise)

IntFlag(ctx, h, nm, otherwise) == FlagOf("int", ctx, h, nm, otherwise)

FloatFlag(ctx, h, nm, otherwise) == FlagOf("float", ctx, h, nm, otherwise)

BoolFlag(ctx, h, nm, otherwise) == FlagOf("bool", ctx, h, nm, otherwise)

HelpFlag(ctx, h) == BoolFlag(ctx, h, "help", "false") = "true"

\* OtherArgs: nil (the empty list) without flag values
OtherArgs(ctx) == IF ctx.fv # <<>> THEN ctx.fv[1].args ELSE <<>>

-----------------------------------------------------------------------------
(* Output *)

\* one write: to is "ctx" for Stdout(ctx) and "os" for fmt.Println
Out(to, what, c, text) == [to |-> to, what |-> what, c |-> c, text |-> text]

\* one written item, marked with the call that wrote it
Item(by, o) == [by |-> by, what |-> o.what, c |-> o.c, text |-> o.text]

RECURSIVE Items(_, _, _)
Items(by, outs, toBuf) ==
    IF outs = <<>> THEN <<>>
    ELSE LET o == Head(outs)
         IN  (IF (o.to = "buf") = toBuf THEN <<Item(by, o)>> ELSE <<>>)
                 \o Items(by, Tail(outs), toBuf)

\* Stdout(ctx): where a write to the scope's destination goes
Stdout(ctx) == ctx.dest

\* the writes of outs with "ctx" resolved through Stdout(ctx)
Resolve(ctx, outs) ==
    [i \in 1..Len(outs) |->
        [outs[i] EXCEPT !.to = IF outs[i].to = "ctx" THEN Stdout(ctx) ELSE "os"]]

-----------------------------------------------------------------------------
(* Application wrapper *)

\* Cli after NewCli: rootCommand is cmds[1]; a nil callback is FALSE, a nil
\* defaultCommand is 0
NewCliObject ==
    [ rootCommand    |-> 1,
      defaultCommand |-> 0,
      preRunCommand  |-> FALSE,
      errorHandler   |-> FALSE,
      helpHandler    |-> FALSE ]

\* Command.isDefaultCommand
isDefaultCommand(cs, cl, c) == getCli(cs, c) /\ cl.defaultCommand = c

\* the lines of the child listing of PrintHelp: the visible children, in order
RECURSIVE Listing(_, _, _)
Listing(cs, cl, subs) ==
    IF subs = <<>> THEN <<>>
    ELSE LET sub == Head(subs)
         IN  (IF cs[sub].hidden THEN <<>>
              ELSE << cs[sub].name \o
                      (IF isDefaultCommand(cs, cl, sub) THEN " [default]" ELSE "") >>)
                 \o Listing(cs, cl, Tail(subs))

\* Command.PrintHelp (with Cli.PrintBanner and flagSet.printDefaults): the
\* writes it makes, in order
PrintHelp(cs, cl, c, ctx) ==
        (IF getCli(cs, c) THEN << Out("ctx", "banner", c, <<cs[cl.rootCommand].name>>) >> ELSE <<>>)
        \o (IF commandPath(cs, c) # cs[c].name
            THEN << Out("os", "title", c, <<commandPath(cs, c)>>) >> ELSE <<>>)
        \o (IF cs[c].longdescription # ""
            THEN << Out("os", "long", c, <<cs[c].longdescription>>) >> ELSE <<>>)
        \o (IF Len(cs[c].subCommands) > 0
            THEN << Out("os", "commands", c, Listing(cs, cl, cs[c].subCommands)) >> ELSE <<>>)
        \o (IF flagCount(cs[c].flags) > 0 /\ ctx.fv # <<>>
            THEN << Out("ctx", "flags", c, <<>>) >> ELSE <<>>)
        \o << Out("ctx", "end", c, <<>>) >>

-----------------------------------------------------------------------------
(* Errors *)

\* an error value: kind "nil" is nil; "help" is ErrHelp; "config" is "Command
\* not setup correctly"; "parse" is the default parse error, which embeds the
\* flag package's error (cause) and the command path; the other kinds are
\* what the caller's callbacks return
Err(kind, path, cause) == [kind |-> kind, path |-> path, cause |-> cause]

Nil == Err("nil", "", "")

ErrHelp == Err("help", "", "")

\* what a callback returns: nil when the oracle says it succeeds
Returned(kind, ok) == IF ok THEN Nil ELSE Err(kind, "", "")

\* the text of the default parse error:
\* fmt.Errorf("Error: %s\nSee '%s --help' for usage", err, commandPath)
Message(e) == "Error: " \o e.cause \o "\nSee '" \o e.path \o " --help' for usage"

-----------------------------------------------------------------------------
(* Calls *)

\* the flag names the actions of the model read, in the order they print them
FlagNameSeq == <<"fmt", "ui", "n">>

FlagNames == {FlagNameSeq[i] : i \in 1..Len(FlagNameSeq)}

\* what an action reads through the accessors
Read(ctx, h) ==
    [ str   |-> [nm \in FlagNames |-> StringFlag(ctx, h, nm, "???")],
      bool  |-> [nm \in FlagNames |-> BoolFlag(ctx, h, nm, "false")],
      int   |-> [nm \in FlagNames |-> IntFlag(ctx, h, nm, "-1")],
      float |-> [nm \in FlagNames |-> FloatFlag(ctx, h, nm, "-1")],
      other |-> OtherArgs(ctx),
      help  |-> HelpFlag(ctx, h) ]

\* what an action prints with Printf(ctx, ...): the texts it read
ActionOutput(c, r) ==
    << Out("ctx", "action", c, [i \in 1..Len(FlagNameSeq) |-> r.str[FlagNameSeq[i]]]) >>

\* one step of the ghost trace of a call: what happened at node c, for a
\* callback the kind of the error it returned; arg is what a handler was called with
Event(what, c, res) == [ev |-> what, c |-> c, res |-> res, arg |-> <<>>]

Ev(what, c) == Event(what, c, "")

\* a callback of the given kind was called at c and returned as the oracle says
Called(kind, c, ok) == Event(kind, c, IF ok THEN "nil" ELSE kind)

\* a call of Run or RunBuffer that has not started
IdleCall ==
    [ pc    |-> "idle",
      entry |-> "",
      args  |-> <<>>,
      c     |-> 0,
      rest  |-> <<>>,
      ctx   |-> Context("os", FALSE, <<>>),
      buf   |-> <<>>,
      err   |-> Nil,
      obs   |-> <<>>,
      evs   |-> <<>> ]

\* the part of the state a call acts on
World(call, h, out) == [call |-> call, heap |-> h, stdout |-> out]

\* a call writes outs (v and o are w and outs, evaluated once)
Write(w, id, outs) ==
    CHOOSE r \in {[v EXCEPT !.call.buf = @ \o Items(id, Resolve(v.call.ctx, o), TRUE),
                            !.stdout   = @ \o Items(id, Resolve(v.call.ctx, o), FALSE)] :
                  v \in {w}, o \in {outs}} : TRUE

\* run returns err to Cli.Run, which returns it; the cells the call's FlagSet
\* allocated are unreachable from then on (v is w, evaluated once)
Return(w, id, err) ==
    CHOOSE r \in {[v EXCEPT !.call.pc = "done",
                            !.call.err = err,
                            !.heap = [a \in {x \in DOMAIN v.heap : x.call # id} |-> v.heap[a]]] :
                  v \in {w}} : TRUE

Log(w, e) == [w EXCEPT !.call.evs = Append(@, e)]

\* Cli.RunBuffer: a new buffer as the scope's destination. Cli.Run with a
\* scope that carries a destination (WithStdout) or none
Enter(entry, dest, args) ==
    [IdleCall EXCEPT !.pc = "prerun", !.entry = entry, !.args = args,
                     !.ctx = Context(IF entry = "RunBuffer" THEN "buf" ELSE dest, FALSE, <<>>)]

\* StepPreRun that goes on to the root command whatever the hook returned
StepPreRunIgnoringError(cl, id, w, orc) ==
    LET toRoot == [w EXCEPT !.call.pc = "run", !.call.c = cl.rootCommand,
                            !.call.rest = w.call.args]
    IN  IF cl.preRunCommand THEN Log(toRoot, Called("preRun", 0, ~orc.pre)) ELSE toRoot

\* Cli.Run: the pre-run hook, then rootCommand.run(ctx, args)
StepPreRun(cl, id, w, orc) ==
    LET toRoot == [w EXCEPT !.call.pc = "run", !.call.c = cl.rootCommand,
                            !.call.rest = w.call.args]
    IN  IF cl.preRunCommand
        THEN IF orc.pre THEN Return(Log(w, Called("preRun", 0, FALSE)), id, Err("preRun", "", ""))
             ELSE Log(toRoot, Called("preRun", 0, TRUE))
        ELSE toRoot

\* AfterParse with the parse error dropped: the run goes on to the action
AfterParseIgnoringError(cs, cl, id, w, orc, c, p, ctx2) ==
    [w EXCEPT !.call.ctx = ctx2, !.call.pc = "act"]

\* AfterParse without the help flag: after a successful parse the run goes on
\* to the action
AfterParseNoHelp(cs, cl, id, w, orc, c, p, ctx2) ==
    IF p.err # ""
    THEN Return(w, id, Err("parse", commandPath(cs, c), p.err))
    ELSE [w EXCEPT !.call.ctx = ctx2, !.call.pc = "act"]

\* AfterParse that calls the error handler and returns the default parse
\* error all the same
AfterParseHandlerUnheeded(cs, cl, id, w, orc, c, p, ctx2) ==
    IF p.err # ""
    THEN IF cl.errorHandler
         THEN Return(Log(Write(w, id, << Out("ctx", "flagerr", c, <<p.err>>) >>),
                         [Called("errorHandler", c, orc.ret)
                             EXCEPT !.arg = <<commandPath(cs, c), p.err>>]),
                     id, Err("parse", commandPath(cs, c), p.err))
         ELSE Return(Write(w, id, << Out("ctx", "flagerr", c, <<p.err>>) >>),
                     id, Err("parse", commandPath(cs, c), p.err))
    ELSE IF HelpFlag(ctx2, p.h)
    THEN Return(Log(Write([w EXCEPT !.call.ctx = ctx2], id, PrintHelp(cs, cl, c, ctx2)),
                    Ev("help", c)),
                id, Nil)
    ELSE [w EXCEPT !.call.ctx = ctx2, !.call.pc = "act"]

\* Command.run after parseFlags returned p: the parse error, the help flag
AfterParse(cs, cl, id, w, orc, c, p, ctx2) ==
    IF p.err # ""
    THEN IF cl.errorHandler
         THEN Return(Log(Write(w, id, << Out("ctx", "flagerr", c, <<p.err>>) >>),
                         [Called("errorHandler", c, orc.ret)
                             EXCEPT !.arg = <<commandPath(cs, c), p.err>>]),
                     id, Returned("errorHandler", orc.ret))
         ELSE Return(Write(w, id, << Out("ctx", "flagerr", c, <<p.err>>) >>),
                     id, Err("parse", commandPath(cs, c), p.err))
    ELSE IF HelpFlag(ctx2, p.h)
    THEN Return(Log(Write([w EXCEPT !.call.ctx = ctx2], id, PrintHelp(cs, cl, c, ctx2)),
                    Ev("help", c)),
                id, Nil)
    ELSE [w EXCEPT !.call.ctx = ctx2, !.call.pc = "act"]

\* Command.run at "Parse flags"
StepParse(cs, cl, id, w, orc, c, p) ==
    AfterParse(cs, cl, id, Log([w EXCEPT !.heap = p.h], Ev("parse", c)), orc, c, p,
               [w.call.ctx EXCEPT !.fv = <<p.fv>>])

\* Descend that hands the child the whole argument list, its own name included
DescendKeepingArguments(w, subcommand, args) ==
    [w EXCEPT !.call.c = subcommand, !.call.rest = args]

\* Command.run at "return subcommand.run(ctx, args[1:])"
Descend(w, subcommand, args) ==
    [w EXCEPT !.call.c = subcommand, !.call.rest = Tail(args)]

\* StepRun with the flags of the parent parsed at the child as well
StepRunInheritingFlags(cs, cl, id, w, orc) ==
    IF ~getCli(cs, w.call.c) THEN Return(w, id, Err("config", "", ""))
    ELSE IF Len(w.call.rest) > 0
    THEN IF MapGet(cs[w.call.c].subCommandsMap, Head(w.call.rest), 0) # 0
         THEN Descend(w, cs[w.call.c].subCommandsMap[Head(w.call.rest)], w.call.rest)
         ELSE StepParse(cs, cl, id, w, orc, w.call.c,
                        parseFlags(IF cs[w.call.c].parent # 0
                                   THEN cs[w.call.c].flags @@ cs[cs[w.call.c].parent].flags
                                   ELSE cs[w.call.c].flags,
                                   id, w.heap, w.call.rest))
    ELSE [w EXCEPT !.call.pc = "act"]

\* StepRun with the child looked up under the first argument that names one,
\* wherever it stands, instead of under args[0]
StepRunChildAnywhere(cs, cl, id, w, orc) ==
    LET rest  == w.call.rest
        named == {i \in 1..Len(rest) : MapGet(cs[w.call.c].subCommandsMap, rest[i], 0) # 0}
        first == CHOOSE i \in named : \A j \in named : i <= j
    IN  IF ~getCli(cs, w.call.c) THEN Return(w, id, Err("config", "", ""))
        ELSE IF Len(rest) > 0
        THEN IF named # {}
             THEN Descend(w, cs[w.call.c].subCommandsMap[rest[first]], SubSeq(rest, first, Len(rest)))
             ELSE CHOOSE r \in {StepParse(cs, cl, id, w, orc, w.call.c, p) :
                                 p \in {parseFlags(cs[w.call.c].flags, id, w.heap, rest)}} : TRUE
        ELSE [w EXCEPT !.call.pc = "act"]

\* Command.run up to the action: wrapper lookup, child lookup, flag parsing,
\* help flag (p is the result of parseFlags, evaluated once)
StepRun(cs, cl, id, w, orc) ==
    IF ~getCli(cs, w.call.c) THEN Return(w, id, Err("config", "", ""))
    ELSE IF Len(w.call.rest) > 0
    THEN IF MapGet(cs[w.call.c].subCommandsMap, Head(w.call.rest), 0) # 0
         THEN Descend(w, cs[w.call.c].subCommandsMap[Head(w.call.rest)], w.call.rest)
         ELSE CHOOSE r \in {StepParse(cs, cl, id, w, orc, w.call.c, p) :
                             p \in {parseFlags(cs[w.call.c].flags, id, w.heap, w.call.rest)}} : TRUE
    ELSE [w EXCEPT !.call.pc = "act"]

\* the action callback of node c: it reads r, prints, and returns (x is r,
\* evaluated once)
ActionCallback(w, id, c, r, orc) ==
    CHOOSE d \in {Return(Log(Write([w EXCEPT !.call.obs = <<x>>], id, ActionOutput(c, x)),
                             Called("action", c, orc.ret)),
                         id, Returned("action", orc.ret)) : x \in {r}} : TRUE

\* StepAct without the default command
StepActNoDefault(cs, cl, id, w, orc) ==
    IF cs[w.call.c].actionCallback
    THEN ActionCallback(w, id, w.call.c, Read(w.call.ctx, w.heap), orc)
    ELSE IF cl.helpHandler
    THEN Return(Log(w, Called("helpHandler", w.call.c, orc.ret)), id, Returned("helpHandler", orc.ret))
    ELSE Return(Log(Write(w, id, PrintHelp(cs, cl, w.call.c, w.call.ctx)), Ev("help", w.call.c)),
                id, ErrHelp)

\* StepAct with the default command consulted before the node's own action
StepActDefaultFirst(cs, cl, id, w, orc) ==
    IF cl.defaultCommand # 0 /\ cl.defaultCommand # w.call.c /\ Len(w.call.rest) = 0
    THEN Log([w EXCEPT !.call.pc = "run", !.call.c = cl.defaultCommand], Ev("default", w.call.c))
    ELSE IF cs[w.call.c].actionCallback
    THEN ActionCallback(w, id, w.call.c, Read(w.call.ctx, w.heap), orc)
    ELSE IF cl.helpHandler
    THEN Return(Log(w, Called("helpHandler", w.call.c, orc.ret)), id, Returned("helpHandler", orc.ret))
    ELSE Return(Log(Write(w, id, PrintHelp(cs, cl, w.call.c, w.call.ctx)), Ev("help", w.call.c)),
                id, ErrHelp)

\* StepAct that returns nil after the final help
StepActHelpNil(cs, cl, id, w, orc) ==
    IF cs[w.call.c].actionCallback
    THEN ActionCallback(w, id, w.call.c, Read(w.call.ctx, w.heap), orc)
    ELSE IF cl.defaultCommand # 0 /\ cl.defaultCommand # w.call.c /\ Len(w.call.rest) = 0
    THEN Log([w EXCEPT !.call.pc = "run", !.call.c = cl.defaultCommand], Ev("default", w.call.c))
    ELSE IF cl.helpHandler
    THEN Return(Log(w, Called("helpHandler", w.call.c, orc.ret)), id, Returned("helpHandler", orc.ret))
    ELSE Return(Log(Write(w, id, PrintHelp(cs, cl, w.call.c, w.call.ctx)), Ev("help", w.call.c)),
                id, Nil)

\* Command.run from "Do we have an action?": the action, the default
\* command, the help handler, or help and ErrHelp
StepAct(cs, cl, id, w, orc) ==
    IF cs[w.call.c].actionCallback
    THEN ActionCallback(w, id, w.call.c, Read(w.call.ctx, w.heap), orc)
    ELSE IF cl.defaultCommand # 0 /\ cl.defaultCommand # w.call.c /\ Len(w.call.rest) = 0
    THEN Log([w EXCEPT !.call.pc = "run", !.call.c = cl.defaultCommand], Ev("default", w.call.c))
    ELSE IF cl.helpHandler
    THEN Return(Log(w, Called("helpHandler", w.call.c, orc.ret)), id, Returned("helpHandler", orc.ret))
    ELSE Return(Log(Write(w, id, PrintHelp(cs, cl, w.call.c, w.call.ctx)), Ev("help", w.call.c)),
                id, ErrHelp)

\* one step of a call that has started and not returned
Step(cs, cl, id, w, orc) ==
    CASE w.call.pc = "prerun" -> StepPreRun(cl, id, w, orc)
      [] w.call.pc = "run"    -> StepRun(cs, cl, id, w, orc)
      [] w.call.pc = "act"    -> StepAct(cs, cl, id, w, orc)

\* a call run to its return with no other call in between
RECURSIVE RunToEnd(_, _, _, _, _)
RunToEnd(cs, cl, id, w, orc) ==
    IF w.call.pc = "done" THEN w ELSE RunToEnd(cs, cl, id, Step(cs, cl, id, w, orc), orc)

\* what the callbacks of one call return: pre is "the pre-run hook fails",
\* ret is "the action or handler that ends the call returns nil"
Oracles == [pre : BOOLEAN, ret : BOOLEAN]

-----------------------------------------------------------------------------
(* Inputs of the model *)

CallIds == {1, 2}

\* the caller's variable of the test: var interactive bool
Interactive == Addr(0, "interactive")

\* more variables of the caller: two strings and an int
Format == Addr(0, "format")

Format2 == Addr(0, "format2")

Count == Addr(0, "count")

\* the heap before any call: the caller's variables with the values the
\* caller gave them
InitHeap ==
    [a \in {Interactive, Format, Format2, Count} |->
        CASE a = Interactive -> Val("bool", "false")
          [] a = Count       -> Val("int", "7")
          [] OTHER           -> Val("string", "init")]

\* all argument lists of at most n tokens
ArgLists(tokens, n) == UNION {[1..k -> tokens] : k \in 0..n}

Quiet ==
    /\ heap = InitHeap
    /\ stdout = <<>>
    /\ calls = [id \in CallIds |-> IdleCall]
    /\ regs = <<>>

\* no call has started: the configuration phase
Configuring == \A id \in CallIds : calls[id].pc = "idle"

-----------------------------------------------------------------------------
(* The tree specification: trees built with NewSubCommand *)

RootNames == {"app", ""}

TreeNames == {"sub", ""}

InitTree ==
    /\ cmds \in {NewCli(nm) : nm \in RootNames}
    /\ cli = NewCliObject
    /\ Quiet

\* c.NewSubCommand(nm, ...): on any node while the tree is small, then on the
\* node created last, so that chains longer than maxDepth are built
TreeNewSubCommand(c, nm) ==
    /\ Len(cmds) < MaxTreeNodes
    /\ c = Len(cmds) \/ Len(cmds) <= MaxBranch
    /\ cmds' = NewSubCommand(cmds, c, nm)
    /\ UNCHANGED <<cli, heap, stdout, calls, regs>>

NextTree == \E c \in 1..Len(cmds), nm \in TreeNames : TreeNewSubCommand(c, nm)

SpecTree == InitTree /\ [][NextTree]_vars

-----------------------------------------------------------------------------
(* The main specification: a configured tree, its wrapper's policy set by    *)
(* the configuration methods, then one call of Run or RunBuffer              *)

\* NewCli("app", ...).StringFlag("fmt", ..., "").BoolFlag("ui", ..., false)
RootTree ==
    CommandFlag(CommandFlag(NewCli("app"), 1, "fmt", Val("string", ""), NilPtr),
                1, "ui", Val("bool", "false"), NilPtr)

\* root.NewSubCommand("hello", ...).StringFlag("fmt", ..., "txt")
WithHello ==
    CommandFlag(NewSubCommand(RootTree, 1, "hello"), 2, "fmt", Val("string", "txt"), NilPtr)

\* hello.NewSubCommand("sub", ...): a third node, with no flags
DeepTree == NewSubCommand(WithHello, 2, "sub")

Tokens == {"hello", "sub", "--ui", "--fmt", "--xxx", "--help"}

\* the argument lists handed to Run and RunBuffer
Inputs == ArgLists(Tokens, MaxArgs)

Init ==
    /\ cmds = DeepTree
    /\ cli = NewCliObject
    /\ Quiet

\* Command.Action: callback is FALSE for Action(nil)
Action(c, callback) ==
    /\ Configuring
    /\ cmds' = CommandAction(cmds, c, callback)
    /\ UNCHANGED <<cli, heap, stdout, calls, regs>>

\* Cli.DefaultCommand
DefaultCommand(c) ==
    /\ Configuring
    /\ cli' = [cli EXCEPT !.defaultCommand = c]
    /\ UNCHANGED <<cmds, heap, stdout, calls, regs>>

\* Cli.ErrorFunction
ErrorFunction(fn) ==
    /\ Configuring
    /\ cli' = [cli EXCEPT !.errorHandler = fn]
    /\ UNCHANGED <<cmds, heap, stdout, calls, regs>>

\* Cli.HelpHandler
HelpHandler(handler) ==
    /\ Configuring
    /\ cli' = [cli EXCEPT !.helpHandler = handler]
    /\ UNCHANGED <<cmds, heap, stdout, calls, regs>>

\* Cli.PreRun
PreRun(callback) ==
    /\ Configuring
    /\ cli' = [cli EXCEPT !.preRunCommand = callback]
    /\ UNCHANGED <<cmds, heap, stdout, calls, regs>>

\* a whole call by call 1, no other call running; the oracle makes the
\* pre-run hook fail only when there is one
WholeCall(entry, dest, args, orc) ==
    /\ Configuring
    /\ orc.pre => cli.preRunCommand
    /\ \E w \in {RunToEnd(cmds, cli, 1, World(Enter(entry, dest, args), heap, stdout), orc)} :
        /\ calls' = [calls EXCEPT ![1] = w.call]
        /\ heap' = w.heap
        /\ stdout' = w.stdout
    /\ UNCHANGED <<cmds, cli, regs>>

\* Cli.Run(ctx, args...) with a scope that carries a destination
Run(args, orc) == WholeCall("Run", "buf", args, orc)

\* Cli.RunBuffer(ctx, false, args...)
RunBuffer(args, orc) == WholeCall("RunBuffer", "os", args, orc)

Next ==
    \/ \E c \in 1..Len(cmds), callback \in BOOLEAN : Action(c, callback)
    \/ \E c \in 0..Len(cmds) : DefaultCommand(c)
    \/ \E fn \in BOOLEAN : ErrorFunction(fn)
    \/ \E handler \in BOOLEAN : HelpHandler(handler)
    \/ Configuring /\ \E args \in Inputs, orc \in Oracles : Run(args, orc)
    \/ Configuring /\ \E args \in Inputs, orc \in Oracles : RunBuffer(args, orc)

Spec == Init /\ [][Next]_vars

-----------------------------------------------------------------------------
(* The flag specification: flags registered on the root, one after the      *)
(* other, then one call                                                      *)

\* NewCli("app", ...).Action(...)
InitFlags ==
    /\ cmds = CommandAction(NewCli("app"), 1, TRUE)
    /\ cli = NewCliObject
    /\ Quiet

\* a BoolFlag / StringFlag / IntFlag / FloatFlag call on node c: the
\* declaration is recorded on the node, and in the history regs
Declare(c, nm, value, ptr) ==
    /\ Configuring
    /\ Len(regs) < MaxFlagRegs
    /\ cmds' = CommandFlag(cmds, c, nm, value, ptr)
    /\ regs' = Append(regs, Proto(nm, value, ptr))
    /\ UNCHANGED <<cli, heap, stdout, calls>>

\* Command.StringFlag(nm, "", val, ptrs...)
CommandStringFlag(c, nm, val, ptr) == Declare(c, nm, Val("string", val), ptr)

\* Command.BoolFlag(nm, "", val, ptrs...)
CommandBoolFlag(c, nm, val, ptr) == Declare(c, nm, Val("bool", val), ptr)

\* Command.IntFlag(nm, "", val, ptrs...)
CommandIntFlag(c, nm, val, ptr) == Declare(c, nm, Val("int", val), ptr)

\* Command.FloatFlag(nm, "", val, ptrs...)
CommandFloatFlag(c, nm, val, ptr) == Declare(c, nm, Val("float", val), ptr)

\* the names, defaults and pointers the registrations are drawn from
RegNames == {"fmt"}

StringPtrs == {NilPtr, Ptr("string", Format), Ptr("string", Format2)}

BoolPtrs == {NilPtr, Ptr("bool", Interactive)}

IntPtrs == {NilPtr, Ptr("int", Count)}

FlagTokens == {"--fmt", "5", "x"}

FlagInputs == ArgLists(FlagTokens, MaxFlagArgs)

NextFlags ==
    \/ \E nm \in RegNames, val \in {"", "txt"}, ptr \in StringPtrs : CommandStringFlag(1, nm, val, ptr)
    \/ \E nm \in RegNames, val \in BOOLEAN, ptr \in BoolPtrs :
            CommandBoolFlag(1, nm, IF val THEN "true" ELSE "false", ptr)
    \/ \E nm \in RegNames, ptr \in IntPtrs : CommandIntFlag(1, nm, "0", ptr)
    \/ \E nm \in RegNames : CommandFloatFlag(1, nm, "0", NilPtr)
    \/ Configuring /\ \E args \in FlagInputs, orc \in Oracles : RunBuffer(args, orc)

SpecFlags == InitFlags /\ [][NextFlags]_vars

-----------------------------------------------------------------------------
(* The concurrent specification: two calls of RunBuffer on one configured   *)
(* Cli, their steps interleaved                                              *)

\* NewCli("app", ...).BoolFlag("ui", ..., false, ptrs...).Action(...), and
\* root.NewSubCommand("hello", ...).Action(...)
ConcTree(ptr) ==
    CommandAction(
        NewSubCommand(
            CommandAction(CommandFlag(NewCli("app"), 1, "ui", Val("bool", "false"), ptr), 1, TRUE),
            1, "hello"),
        2, TRUE)

InitConc ==
    /\ cmds \in {ConcTree(ptr) : ptr \in BoolPtrs}
    /\ cli = NewCliObject
    /\ Quiet

ConcTokens == {"--ui", "you", "hello", "--help"}

ConcInputs == ArgLists(ConcTokens, MaxConcArgs)

\* a goroutine calls RunBuffer(ctx, false, args...)
StartRunBuffer(id, args) ==
    /\ calls[id].pc = "idle"
    /\ calls' = [calls EXCEPT ![id] = Enter("RunBuffer", "os", args)]
    /\ UNCHANGED <<cmds, cli, heap, stdout, regs>>

\* Proceed that records the parsed values on the node, as the declarations'
\* values, once the parse has succeeded
ProceedStoringOnNode(id, orc) ==
    /\ calls[id].pc \notin {"idle", "done"}
    /\ orc.pre => cli.preRunCommand
    /\ \E w \in {Step(cmds, cli, id, World(calls[id], heap, stdout), orc)} :
        /\ calls' = [calls EXCEPT ![id] = w.call]
        /\ heap' = w.heap
        /\ stdout' = w.stdout
        /\ cmds' = IF w.call.pc = "act" /\ w.call.ctx.fv # <<>>
                   THEN [cmds EXCEPT ![w.call.c].flags =
                            [nm \in DOMAIN @ |->
                                [@[nm] EXCEPT !.value = w.heap[w.call.ctx.fv[1].vals[nm].addr]]]]
                   ELSE cmds
    /\ UNCHANGED <<cli, regs>>

\* the call takes its next step: the pre-run hook, or run up to the action
\* (flag parsing included), or the action and what follows it
Proceed(id, orc) ==
    /\ calls[id].pc \notin {"idle", "done"}
    /\ orc.pre => cli.preRunCommand
    /\ \E w \in {Step(cmds, cli, id, World(calls[id], heap, stdout), orc)} :
        /\ calls' = [calls EXCEPT ![id] = w.call]
        /\ heap' = w.heap
        /\ stdout' = w.stdout
    /\ UNCHANGED <<cmds, cli, regs>>

NextConc ==
    \/ \E id \in CallIds : calls[id].pc = "idle" /\ \E args \in ConcInputs : StartRunBuffer(id, args)
    \/ \E id \in CallIds, orc \in Oracles : Proceed(id, orc)

SpecConc == InitConc /\ [][NextConc]_vars

-----------------------------------------------------------------------------
(* The stepwise specification: a wrapper whose policy is configured, a node *)
(* that was never attached, then one call taken step by step                *)

MaxStepArgs == 2

\* NewCli("app", ...).BoolFlag("ui", ..., false), root.NewSubCommand("hello",
\* ...).StringFlag("fmt", ..., "txt"), and NewCommand("lost", ...), which
\* nothing attaches
StepTree ==
    Append(CommandFlag(NewSubCommand(CommandFlag(NewCli("app"), 1, "ui", Val("bool", "false"), NilPtr),
                                     1, "hello"),
                       2, "fmt", Val("string", "txt"), NilPtr),
           NewCommand("lost"))

\* the nodes under the wrapper, and the one that is not
Attached == {1, 2}

Lost == 3

InitSteps ==
    /\ cmds = StepTree
    /\ cli = NewCliObject
    /\ Quiet

\* c.AddCommand(command) on a node that has a parent already: the old parent
\* keeps the child in its list and its map
CommandAddCommand(c, command) ==
    /\ Configuring
    /\ cmds[command].parent \notin {0, c}
    /\ cmds' = AddCommand(cmds, c, command)
    /\ UNCHANGED <<cli, heap, stdout, calls, regs>>

StepTokens == {"hello", "--ui", "--fmt", "--help"}

StepInputs == ArgLists(StepTokens, MaxStepArgs)

\* white space as strings.Fields sees it
Blanks == {" ", "\t"}

\* strings.Fields over a line given as its pieces, each a blank or a run of
\* other characters: word is the field being read, out the fields read
RECURSIVE FieldsLoop(_, _, _)
FieldsLoop(line, word, out) ==
    IF line = <<>> THEN (IF word = "" THEN out ELSE Append(out, word))
    ELSE IF Head(line) \in Blanks
    THEN FieldsLoop(Tail(line), "", IF word = "" THEN out ELSE Append(out, word))
    ELSE FieldsLoop(Tail(line), word \o Head(line), out)

Fields(line) == FieldsLoop(line, "", <<>>)

\* a line a user types for args: the words with a blank between them, and
\* with pad more blanks before each word and a tab at the end
RECURSIVE Typed(_, _)
Typed(args, pad) ==
    IF args = <<>> THEN [i \in 1..pad |-> "\t"]
    ELSE [i \in 1..pad |-> " "] \o <<Head(args)>>
            \o (IF Tail(args) = <<>> THEN <<>> ELSE <<" ">>) \o Typed(Tail(args), pad)

Lines == {Typed(args, pad) : args \in StepInputs, pad \in 0..1}

\* a goroutine calls Run(ctx, args...) with a scope that carries no destination
StartRun(id, args) ==
    /\ calls[id].pc = "idle"
    /\ calls' = [calls EXCEPT ![id] = Enter("Run", "os", args)]
    /\ UNCHANGED <<cmds, cli, heap, stdout, regs>>

\* Cli.RunLine(ctx, false, line): RunBuffer on the fields of the line
StartRunLine(id, line) ==
    /\ calls[id].pc = "idle"
    /\ calls' = [calls EXCEPT ![id] = [Enter("RunBuffer", "os", Fields(line)) EXCEPT !.entry = "RunLine"]]
    /\ UNCHANGED <<cmds, cli, heap, stdout, regs>>

\* the running call takes its next step
Proceeding == \E id \in CallIds, orc \in Oracles : Proceed(id, orc)

NextSteps ==
    \/ \E c \in Attached, callback \in BOOLEAN : Action(c, callback)
    \/ \E c \in 0..Len(cmds) : DefaultCommand(c)
    \/ \E handler \in BOOLEAN : HelpHandler(handler)
    \/ \E callback \in BOOLEAN : PreRun(callback)
    \/ \E command \in Attached : CommandAddCommand(Lost, command)
    \/ Configuring /\ \E args \in StepInputs : StartRun(1, args)
    \/ Configuring /\ \E args \in StepInputs : StartRunBuffer(1, args)
    \/ Configuring /\ \E line \in Lines : StartRunLine(1, line)
    \/ Proceeding

SpecSteps == InitSteps /\ [][NextSteps]_vars

\* a goroutine that is running a call keeps running it
SpecLive == SpecSteps /\ WF_vars(Proceeding)

-----------------------------------------------------------------------------
(* Reading a tree from the root down *)

\* the nodes from the root down to c
RECURSIVE Chain(_, _)
Chain(cs, c) == IF cs[c].parent = 0 THEN <<c>> ELSE Append(Chain(cs, cs[c].parent), c)

\* the number of ancestors of c
Depth(cs, c) == Len(Chain(cs, c)) - 1

\* the texts of seq joined by single spaces
RECURSIVE JoinSpaces(_)
JoinSpaces(seq) ==
    IF seq = <<>> THEN ""
    ELSE IF Len(seq) = 1 THEN seq[1]
    ELSE seq[1] \o " " \o JoinSpaces(Tail(seq))

NonEmpty(nm) == nm # ""

\* the names of the nodes of chain, the last one's always, the others' when
\* not empty
PathNames(cs, chain) ==
    SelectSeq([i \in 1..(Len(chain) - 1) |-> cs[chain[i]].name], NonEmpty)
        \o << cs[chain[Len(chain)]].name >>

\* the last n elements of seq, all of it when it has fewer
LastN(seq, n) ==
    IF Len(seq) <= n THEN seq ELSE SubSeq(seq, Len(seq) - n + 1, Len(seq))

-----------------------------------------------------------------------------
(* C10 *)

\* C10 as stated: for every node of a tree built with NewSubCommand,
\* commandPath is the names on the whole parent chain, root first, joined by
\* single spaces, empty ancestor names skipped; the root's name for the root
C10_FullPath ==
    \A c \in 1..Len(cmds) :
        commandPath(cmds, c) = JoinSpaces(PathNames(cmds, Chain(cmds, c)))

\* C10 amended: commandPath is the names of the node and of its nearest
\* maxDepth ancestors, root-most first, joined by single spaces, empty
\* ancestor names skipped; so it is the whole root-to-node path exactly for
\* the nodes with at most maxDepth ancestors, and the root's name for the root
C10_PathWithinMaxDepth ==
    \A c \in 1..Len(cmds) :
        /\ commandPath(cmds, c)
              = JoinSpaces(PathNames(cmds, LastN(Chain(cmds, c), maxDepth + 1)))
        /\ Depth(cmds, c) <= maxDepth
              => commandPath(cmds, c) = JoinSpaces(PathNames(cmds, Chain(cmds, c)))
        /\ c = cli.rootCommand => commandPath(cmds, c) = cmds[c].name

\* a node two levels under the child of a named root, with an unnamed
\* ancestor skipped, in a tree that also has a node below maxDepth whose path
\* has lost the root's name
C10_Witness ==
    /\ \E c \in 1..Len(cmds) :
        /\ Depth(cmds, c) = 3
        /\ cmds[Chain(cmds, c)[2]].name = ""
        /\ commandPath(cmds, c) = "app sub sub"
    /\ \E c \in 1..Len(cmds) :
        /\ Depth(cmds, c) > maxDepth
        /\ cmds[1].name = "app"
        /\ commandPath(cmds, c) # JoinSpaces(PathNames(cmds, Chain(cmds, c)))

-----------------------------------------------------------------------------
(* What the claims speak of *)

\* the direct child of c named nm, 0 when there is none
ChildNamed(cs, c, nm) ==
    LET named == {i \in 1..Len(cs[c].subCommands) : cs[cs[c].subCommands[i]].name = nm}
    IN  IF named = {} THEN 0 ELSE cs[c].subCommands[CHOOSE i \in named : TRUE]

\* the node where resolution stops and the arguments left there: descend
\* while the first argument names a direct child
RECURSIVE Resolved(_, _, _)
Resolved(cs, c, args) ==
    IF args # <<>> /\ ChildNamed(cs, c, Head(args)) # 0
    THEN Resolved(cs, ChildNamed(cs, c, Head(args)), Tail(args))
    ELSE [c |-> c, args |-> args]

\* the nodes resolution passes through before the one where it stops
RECURSIVE Passed(_, _, _)
Passed(cs, c, args) ==
    IF args # <<>> /\ ChildNamed(cs, c, Head(args)) # 0
    THEN {c} \cup Passed(cs, ChildNamed(cs, c, Head(args)), Tail(args))
    ELSE {}

\* the indices of the events of a kind in the trace of call k
EventsOf(k, what) == {i \in 1..Len(k.evs) : k.evs[i].ev = what}

NumEvents(k, what) == Cardinality(EventsOf(k, what))

\* the nodes whose action was invoked in call k
ActionsOf(k) == {k.evs[i].c : i \in EventsOf(k, "action")}

\* the outcome of parsing args against the schema of node c, in a call of
\* its own
ParseAt(cs, c, args) == parseFlags(cs[c].flags, 1, InitHeap, args)

\* the help flag after that parse
HelpSet(p) == p.h[Addr(1, "help")].v = "true"

\* what the action of c writes when it has read r, as call id wrote it
ActionItems(id, c, r) == Items(id, Resolve(Context("buf", FALSE, <<>>), ActionOutput(c, r)), TRUE)

\* what an action reads after that parse
ReadAfter(p) == Read(Context("buf", FALSE, <<p.fv>>), p.h)

-----------------------------------------------------------------------------
(* C2 *)

\* C2: when flag parsing fails at the node where resolution stops and no
\* custom error handler is set, Run returns a non-nil error and no action
\* callback of any node is invoked
C2_ParseFailureRunsNoAction ==
    LET k  == calls[1]
        at == Resolved(cmds, cli.rootCommand, k.args)
    IN  (/\ k.pc = "done"
         /\ ~cli.errorHandler
         /\ at.args # <<>>
         /\ ParseAt(cmds, at.c, at.args).err # "")
        => /\ k.err.kind # "nil"
           /\ ActionsOf(k) = {}
           /\ k.obs = <<>>

\* --xxx after two declared flags at the root, which has an action: Run
\* returned the default parse error and the action did not run
C2_Witness ==
    /\ calls[1].pc = "done"
    /\ calls[1].args = <<"--ui", "--xxx", "hello">>
    /\ cmds[1].actionCallback
    /\ ~cli.errorHandler
    /\ calls[1].err = Err("parse", "app", "flag provided but not defined")
    /\ calls[1].obs = <<>>

-----------------------------------------------------------------------------
(* C3 *)

\* the flag token of a declared name
FlagToken(nm) == "--" \o nm

\* a run of declared flags at the head of args, read off the schema protos:
\* a bool flag is its token alone, any other flag its token and the next
\* argument as the value. given maps the names supplied so far to their
\* values. The result says whether the run ends in a token that is not a flag
\* (ends), what was supplied, and that token with all that follow it (rest)
RECURSIVE FlagRun(_, _, _)
FlagRun(protos, args, given) ==
    IF args = <<>> THEN [ends |-> FALSE, given |-> given, rest |-> args]
    ELSE IF \E nm \in DOMAIN protos : Head(args) = FlagToken(nm)
    THEN LET nm == CHOOSE x \in DOMAIN protos : Head(args) = FlagToken(x)
         IN  IF protos[nm].value.kind = "bool"
             THEN FlagRun(protos, Tail(args), MapPut(given, nm, "true"))
             ELSE IF Len(args) >= 2 /\ SetOk(protos[nm].value.kind, args[2])
             THEN FlagRun(protos, Tail(Tail(args)), MapPut(given, nm, args[2]))
             ELSE [ends |-> FALSE, given |-> given, rest |-> args]
    ELSE [ends |-> ~Lex(Head(args)).dash, given |-> given, rest |-> args]

\* what the accessor of the flag's kind returned for nm in the reading r
ReadOfKind(r, kind, nm) ==
    CASE kind = "bool"   -> r.bool[nm]
      [] kind = "string" -> r.str[nm]
      [] kind = "int"    -> r.int[nm]
      [] kind = "float"  -> r.float[nm]

\* C3: when the arguments at the resolving node are a run of declared flags
\* followed by a token that is not a flag (and not, at position 0, a child
\* name), parsing succeeds, and in the node's action every flag of the run
\* reads its supplied value and OtherArgs is that token and all tokens after
\* it, in order and unmodified, undeclared-flag look-alikes included
C3_FlagRunThenPositionals ==
    LET k   == calls[1]
        at  == Resolved(cmds, cli.rootCommand, k.args)
        run == FlagRun(cmds[at.c].flags, at.args, EmptyMap)
    IN  (k.pc = "done" /\ run.ends)
        => /\ k.err.kind \notin {"parse", "errorHandler"}
           /\ NumEvents(k, "errorHandler") = 0
           /\ \A i \in 1..Len(k.buf) : k.buf[i].what # "flagerr"
           /\ cmds[at.c].actionCallback
                => /\ ActionsOf(k) = {at.c}
                   /\ Len(k.obs) = 1
                   /\ k.obs[1].other = run.rest
                   /\ \A nm \in DOMAIN run.given :
                        ReadOfKind(k.obs[1], cmds[at.c].flags[nm].value.kind, nm) = run.given[nm]

\* --ui, then hello (a child's name, but not at position 0), then an
\* undeclared flag: the root's action read ui as true and got the last two
\* tokens from OtherArgs
C3_Witness ==
    /\ calls[1].pc = "done"
    /\ calls[1].args = <<"--ui", "hello", "--xxx">>
    /\ cmds[1].actionCallback
    /\ calls[1].err = Nil
    /\ calls[1].obs # <<>>
    /\ calls[1].obs[1].bool["ui"] = "true"
    /\ calls[1].obs[1].other = <<"hello", "--xxx">>

-----------------------------------------------------------------------------
(* C4 *)

\* the error Run returns when the action invoked in call k is the last thing
\* that happened: what the action returned
ActionResult(k) ==
    IF k.evs[Len(k.evs)].res = "nil" THEN Nil ELSE Err("action", "", "")

\* everything call k wrote, to its destination and to os.Stdout
Written(k, out) == k.buf \o SelectSeq(out, LAMBDA it : it.by = 1)

\* the descent of C4 for the arguments rest handed to the child where
\* resolution stops, parsed as p: no node passed on the way has its action
\* invoked; when the child has an action, the parse succeeded and help was
\* not asked for, the child's action is the one invoked, it reads the child's
\* flags as p left them, its output is the only output, and Run returns what
\* it returned, nil for nil
DescentOutcome(k, at, p) ==
    /\ ActionsOf(k) \cap Passed(cmds, cli.rootCommand, k.args) = {}
    /\ \A e \in EventsOf(k, "parse") : k.evs[e].c = at.c
    /\ (cmds[at.c].actionCallback /\ p.err = "" /\ ~HelpSet(p))
        => /\ ActionsOf(k) = {at.c}
           /\ k.obs = <<ReadAfter(p)>>
           /\ k.buf = ActionItems(1, at.c, ReadAfter(p))
           /\ stdout = <<>>
           /\ k.err = ActionResult(k)

\* C4: when args[0] names a direct child, resolution descends into it with
\* args[1:]; the child's action (not the parent's) is the one invoked, it
\* reads the child's own flags as parsed from args[1:], the only output is
\* the action's own, and Run returns nil when the action returns nil; for
\* Run with a destination in the scope and for RunBuffer alike
C4_DescendsIntoChild ==
    LET k  == calls[1]
        at == Resolved(cmds, cli.rootCommand, k.args)
    IN  (k.pc = "done" /\ at.c # cli.rootCommand)
        => DescentOutcome(k, at, ParseAt(cmds, at.c, at.args))

\* C4 for a child that is handed at least one argument: the descent of C4
\* with args[1:] not empty
C4_DescendsWithArguments ==
    LET k  == calls[1]
        at == Resolved(cmds, cli.rootCommand, k.args)
    IN  (k.pc = "done" /\ at.c # cli.rootCommand /\ at.args # <<>>)
        => DescentOutcome(k, at, ParseAt(cmds, at.c, at.args))

\* hello alone, with an action on hello and on the root: hello's action ran,
\* and read the accessor's fallback for fmt, not the "txt" a parse of the
\* empty list leaves
C4_Witness ==
    /\ calls[1].pc = "done"
    /\ calls[1].args = <<"hello">>
    /\ cmds[1].actionCallback
    /\ cmds[2].actionCallback
    /\ ActionsOf(calls[1]) = {2}
    /\ calls[1].obs[1].str["fmt"] = "???"
    /\ ReadAfter(ParseAt(cmds, 2, <<>>)).str["fmt"] = "txt"

-----------------------------------------------------------------------------
(* C5 *)

\* call k rendered the help of node c
HelpRendered(k, out, c) ==
    \E i \in 1..Len(Written(k, out)) :
        Written(k, out)[i].what = "end" /\ Written(k, out)[i].c = c

\* C5: Run with zero arguments, the root without an action, the default
\* command another node with an action: exactly the default command's action
\* is invoked, its output is the whole output of the call, no help is
\* rendered and ErrHelp is not returned
C5_DefaultCommandRuns ==
    LET k == calls[1]
        d == cli.defaultCommand
    IN  (/\ k.pc = "done"
         /\ k.args = <<>>
         /\ ~cmds[cli.rootCommand].actionCallback
         /\ d \notin {0, cli.rootCommand}
         /\ cmds[d].actionCallback)
        => /\ ActionsOf(k) = {d}
           /\ NumEvents(k, "action") = 1
           /\ Len(k.obs) = 1
           /\ k.buf = ActionItems(1, d, k.obs[1])
           /\ stdout = <<>>
           /\ NumEvents(k, "help") = 0
           /\ NumEvents(k, "helpHandler") = 0
           /\ k.err # ErrHelp
           /\ k.err = ActionResult(k)

\* no arguments, the default command is sub (node 3), which has an action:
\* the run delegated from the root and sub's action ran
C5_Witness ==
    /\ calls[1].pc = "done"
    /\ calls[1].args = <<>>
    /\ ~cmds[1].actionCallback
    /\ cli.defaultCommand = 3
    /\ calls[1].evs = << Ev("default", 1), Called("action", 3, TRUE) >>
    /\ calls[1].buf # <<>>
    /\ calls[1].err = Nil

-----------------------------------------------------------------------------
(* C6 *)

\* C6: in a Run at most one action callback is invoked; if the node where
\* resolution stops has an action, parsing did not fail and the help flag is
\* not set, that node's action is the one invoked, the default command is not
\* consulted, and Run returns exactly what the action returned
C6_OwnActionFirst ==
    LET k  == calls[1]
        at == Resolved(cmds, cli.rootCommand, k.args)
        p  == ParseAt(cmds, at.c, at.args)
    IN  /\ NumEvents(k, "action") <= 1
        /\ (/\ k.pc = "done"
            /\ cmds[at.c].actionCallback
            /\ at.args # <<>> => (p.err = "" /\ ~HelpSet(p)))
           => /\ ActionsOf(k) = {at.c}
              /\ NumEvents(k, "action") = 1
              /\ NumEvents(k, "default") = 0
              /\ k.c = at.c
              /\ k.err = ActionResult(k)

\* the root has an action and the default command is hello, which has one
\* too: with no arguments the root's action ran, and its error was returned
C6_Witness ==
    /\ calls[1].pc = "done"
    /\ calls[1].args = <<>>
    /\ cmds[1].actionCallback
    /\ cmds[2].actionCallback
    /\ cli.defaultCommand = 2
    /\ calls[1].evs = << Called("action", 1, FALSE) >>
    /\ calls[1].err = Err("action", "", "")

-----------------------------------------------------------------------------
(* C7 *)

\* C7: whenever parsing at the resolving node succeeds with the help flag
\* set, that node's help is rendered, Run returns nil, and no action, default
\* command or help handler is invoked, with or without an action on the node
C7_HelpFlagFirst ==
    LET k  == calls[1]
        at == Resolved(cmds, cli.rootCommand, k.args)
        p  == ParseAt(cmds, at.c, at.args)
    IN  (k.pc = "done" /\ at.args # <<>> /\ p.err = "" /\ HelpSet(p))
        => /\ k.evs = << Ev("parse", at.c), Ev("help", at.c) >>
           /\ HelpRendered(k, stdout, at.c)
           /\ k.err = Nil
           /\ k.obs = <<>>
           /\ NumEvents(k, "action") = 0
           /\ NumEvents(k, "default") = 0
           /\ NumEvents(k, "helpHandler") = 0

\* hello --help with an action on hello, a default command and a help
\* handler: help of hello, nil
C7_Witness ==
    /\ calls[1].pc = "done"
    /\ calls[1].args = <<"hello", "--help">>
    /\ cmds[2].actionCallback
    /\ cli.defaultCommand = 3
    /\ cli.helpHandler
    /\ HelpRendered(calls[1], stdout, 2)
    /\ calls[1].err = Nil

-----------------------------------------------------------------------------
(* C8 *)

\* default-command delegation applies at node c with the arguments args
Delegates(c, args) ==
    /\ ~cmds[c].actionCallback
    /\ cli.defaultCommand \notin {0, c}
    /\ args = <<>>

\* C8: Run returns ErrHelp in exactly one situation: the run gets past flag
\* parsing and the help flag to a node that has no action, default-command
\* delegation does not apply there (no default command, the default command
\* is this node, or the arguments are non-empty), and no help handler is
\* registered; the node's help is rendered first
C8_ErrHelpOnlyAtTheEnd ==
    LET k    == calls[1]
        at   == Resolved(cmds, cli.rootCommand, k.args)
        p    == ParseAt(cmds, at.c, at.args)
        last == IF Delegates(at.c, at.args) THEN cli.defaultCommand ELSE at.c
    IN  k.pc = "done"
        => /\ k.err = ErrHelp
              <=> /\ at.args # <<>> => (p.err = "" /\ ~HelpSet(p))
                  /\ ~cmds[last].actionCallback
                  /\ \/ cli.defaultCommand = 0
                     \/ cli.defaultCommand = last
                     \/ at.args # <<>>
                  /\ ~cli.helpHandler
           /\ k.err = ErrHelp
              => /\ k.c = last
                 /\ k.evs[Len(k.evs)] = Ev("help", last)
                 /\ HelpRendered(k, stdout, last)
                 /\ NumEvents(k, "action") = 0

\* --ui at the root, which has no action, with hello as the default command
\* and no help handler: help of the root, then ErrHelp
C8_Witness ==
    /\ calls[1].pc = "done"
    /\ calls[1].args = <<"--ui">>
    /\ ~cmds[1].actionCallback
    /\ cli.defaultCommand = 2
    /\ ~cli.helpHandler
    /\ HelpRendered(calls[1], stdout, 1)
    /\ calls[1].err = ErrHelp

-----------------------------------------------------------------------------
(* C9 *)

\* the registrations of the name nm, as indices of the history
RegsOf(nm) == {i \in 1..Len(regs) : regs[i].name = nm}

\* the last registration of nm
LastReg(nm) == regs[CHOOSE i \in RegsOf(nm) : \A j \in RegsOf(nm) : j <= i]

\* the names registered so far
Registered == {regs[i].name : i \in 1..Len(regs)}

\* the schema in which every name has its last registration
LastRegs == [nm \in Registered |-> LastReg(nm)]

\* the caller's cells that some registration named and no last registration
\* names any more
Replaced ==
    {regs[i].ptr.addr : i \in {j \in 1..Len(regs) : regs[j].ptr # NilPtr}}
        \ {LastRegs[nm].ptr.addr : nm \in Registered}

\* the fallback the actions of the model hand to the accessor of a kind
Fallback(kind) == IF kind = "string" THEN "???" ELSE IF kind = "bool" THEN "false" ELSE "-1"

\* C9: after the same name was registered twice on a node there is one
\* declaration for it, the second; a later parse at the node binds the flag
\* with the second registration's kind (only the accessor of that kind reads
\* it), default (read when the arguments do not supply the flag) and
\* external storage (which holds the value read), and the first
\* registration's storage is not written again. When the parse fails the
\* second registration's storage holds its default or a value the arguments
\* supplied
C9_LastRegistrationWins ==
    \A nm \in Registered :
        Cardinality(RegsOf(nm)) >= 2 =>
            LET second == LastReg(nm)
                kind   == second.value.kind
                k      == calls[1]
                run    == FlagRun(LastRegs, k.args, EmptyMap)
                value  == IF nm \in DOMAIN run.given THEN run.given[nm] ELSE second.value.v
            IN  /\ cmds[1].flags = LastRegs
                /\ flagCount(cmds[1].flags) = Cardinality(Registered)
                /\ (k.pc = "done" /\ k.args # <<>> /\ (run.ends \/ run.rest = <<>>))
                    => /\ Len(k.obs) = 1
                       /\ ReadOfKind(k.obs[1], kind, nm) = SetValue(kind, value).v
                       /\ \A other \in Kinds \ {kind} :
                            ReadOfKind(k.obs[1], other, nm) = Fallback(other)
                       /\ second.ptr # NilPtr => heap[second.ptr.addr] = SetValue(kind, value)
                /\ (k.pc = "done" /\ k.args # <<>> /\ second.ptr # NilPtr /\ k.err.kind = "parse")
                    => heap[second.ptr.addr]
                           \in {SetValue(kind, v) : v \in {second.value.v} \cup FlagTokens}
                /\ k.pc = "done" => \A a \in Replaced : heap[a] = InitHeap[a]

\* fmt registered as a string flag with default "txt" stored in format, then
\* as a string flag with default "" stored in format2; after --fmt 5 the
\* action read "5", format2 holds it, and format was not touched. No cell of
\* the call is left
C9_Witness ==
    /\ regs = << Proto("fmt", Val("string", "txt"), Ptr("string", Format)),
                 Proto("fmt", Val("string", ""), Ptr("string", Format2)) >>
    /\ calls[1].pc = "done"
    /\ calls[1].args = <<"--fmt", "5">>
    /\ calls[1].obs[1].str["fmt"] = "5"
    /\ heap[Format2] = Val("string", "5")
    /\ heap[Format] = Val("string", "init")

-----------------------------------------------------------------------------
(* C1 *)

\* no flag of the tree was declared with external storage
NoExternalStorage ==
    \A c \in 1..Len(cmds) : \A nm \in DOMAIN cmds[c].flags : cmds[c].flags[nm].ptr = NilPtr

\* the call id run alone, from the heap before any call
Alone(id) ==
    RunToEnd(cmds, cli, id, World(Enter("RunBuffer", "os", calls[id].args), InitHeap, <<>>),
             [pre |-> FALSE, ret |-> TRUE]).call

\* C1: for two concurrent RunBuffer calls on one configured Cli with no flag
\* declared with external storage, under every interleaving the bytes a call
\* returns are only what its own action or help wrote, and what its action
\* reads through the accessors and OtherArgs is what was parsed from its own
\* arguments: both are what the call yields when run alone, at the moment
\* the action is about to run and when the call has returned
C1_CallsDoNotInterfere ==
    NoExternalStorage =>
        \A id \in CallIds :
            LET k == calls[id]
            IN  /\ \A i \in 1..Len(k.buf) : k.buf[i].by = id
                /\ (k.pc = "act" /\ cmds[k.c].actionCallback)
                    => <<Read(k.ctx, heap)>> = Alone(id).obs
                /\ k.pc = "done"
                    => /\ k.buf = Alone(id).buf
                       /\ k.obs = Alone(id).obs

\* both calls have parsed their flags and neither action has run: call 1 was
\* given --ui, call 2 a positional argument, and each is about to read its own
\* value of ui
C1_Witness ==
    /\ NoExternalStorage
    /\ calls[1].pc = "act"
    /\ calls[2].pc = "act"
    /\ calls[1].args = <<"--ui">>
    /\ calls[2].args = <<"you">>
    /\ Read(calls[1].ctx, heap).bool["ui"] = "true"
    /\ Read(calls[2].ctx, heap).bool["ui"] = "false"
    /\ Read(calls[2].ctx, heap).other = <<"you">>

-----------------------------------------------------------------------------
(* C11 *)

\* C11: when a pre-run hook is set, a top-level Run invokes it exactly once,
\* before the root command is entered and so before any resolution step; when
\* it returns an error Run returns that error and there is no parsing, help,
\* action, default delegation or help handler, and nothing is written; the
\* run of the default command does not invoke it again. With no hook there
\* is no invocation
C11_PreRunOnceAndFirst ==
    LET k == calls[1]
    IN  /\ k.pc = "prerun" => (k.evs = <<>> /\ k.c = 0)
        /\ ~cli.preRunCommand => NumEvents(k, "preRun") = 0
        /\ (cli.preRunCommand /\ k.pc \in {"run", "act", "done"})
            => /\ EventsOf(k, "preRun") = {1}
               /\ k.evs[1].c = 0
               /\ k.evs[1].res # "nil"
                    => /\ k.pc = "done"
                       /\ k.err = Err("preRun", "", "")
                       /\ Len(k.evs) = 1
                       /\ k.c = 0
                       /\ k.ctx.fv = <<>>
                       /\ k.obs = <<>> /\ k.buf = <<>> /\ stdout = <<>>
                       /\ heap = InitHeap

\* the hook returned nil, the root had no action and no arguments, and run
\* went on to the default command hello, whose action ran: one invocation
C11_Witness ==
    /\ cli.preRunCommand
    /\ calls[1].pc = "done"
    /\ calls[1].args = <<>>
    /\ calls[1].evs = << Called("preRun", 0, TRUE), Ev("default", 1), Called("action", 2, TRUE) >>

-----------------------------------------------------------------------------
(* C12 *)

\* the root's flag ui was declared with the caller's variable as its storage
ExternalStorage == cmds[cli.rootCommand].flags["ui"].ptr = Ptr("bool", Interactive)

\* C12: a flag declared with external storage is bound to the caller's cell
\* in every call that parses the schema; when a call whose arguments supply
\* the flag has parsed them while no other call runs, the cell holds the
\* parsed value, and it still does after the call has returned, where the
\* caller reads it. (That one call's action can read what the other call's
\* parse wrote is the state C12_Witness.)
C12_ExternalStorageIsShared ==
    ExternalStorage =>
        \A id \in CallIds :
            LET k   == calls[id]
                at  == Resolved(cmds, cli.rootCommand, k.args)
                run == FlagRun(cmds[at.c].flags, at.args, EmptyMap)
            IN  /\ (k.ctx.fv # <<>> /\ "ui" \in DOMAIN k.ctx.fv[1].vals)
                    => k.ctx.fv[1].vals["ui"] = Ptr("bool", Interactive)
                /\ (/\ \A other \in CallIds \ {id} : calls[other].pc = "idle"
                     /\ NumEvents(k, "parse") = 1
                     /\ "ui" \in DOMAIN run.given)
                    => /\ heap[Interactive] = Val("bool", run.given["ui"])
                       /\ heap[Interactive] # InitHeap[Interactive]
                       /\ k.pc = "done" => Interactive \in DOMAIN heap

\* call 1 was given no flag and call 2 was given --ui; call 2 parsed after
\* call 1 had, and before the action of call 1 read ui: the action of call 1
\* read true, the value the parse of call 2 wrote, where alone it reads false
C12_Witness ==
    /\ ExternalStorage
    /\ calls[1].args = <<"you">>
    /\ calls[2].args = <<"--ui">>
    /\ calls[1].pc = "done"
    /\ calls[1].obs # <<>>
    /\ calls[1].obs[1].bool["ui"] = "true"
    /\ Alone(1).obs[1].bool["ui"] = "false"

-----------------------------------------------------------------------------
(* C13 *)

\* C13: when run is entered at a node with an empty argument list (Run with
\* no arguments, or a descent that used up the last argument), flags are
\* still parsed against the empty list: the node's action reads, for every
\* declared flag, the declared default and not the accessor's fallback, and
\* the help flag is in the scope and false
C13_EmptyArgumentsAreParsed ==
    LET k  == calls[1]
        at == Resolved(cmds, cli.rootCommand, k.args)
    IN  (k.pc = "done" /\ at.args = <<>> /\ cmds[at.c].actionCallback)
        => /\ ActionsOf(k) = {at.c}
           /\ Len(k.obs) = 1
           /\ \A nm \in DOMAIN cmds[at.c].flags :
                ReadOfKind(k.obs[1], cmds[at.c].flags[nm].value.kind, nm)
                    = cmds[at.c].flags[nm].value.v
           /\ getValuePointer(k.ctx, "help") # NilPtr
           /\ k.obs[1].help = FALSE

\* Run with the one argument hello: the action of hello, which declares fmt
\* with the default txt, ran with no flag values in its scope and read the
\* fallback ???
C13_Witness ==
    /\ calls[1].pc = "done"
    /\ calls[1].args = <<"hello">>
    /\ cmds[2].actionCallback
    /\ cmds[2].flags["fmt"].value = Val("string", "txt")
    /\ calls[1].evs = << Called("action", 2, TRUE) >>
    /\ calls[1].ctx.fv = <<>>
    /\ calls[1].obs[1].str["fmt"] = "???"

-----------------------------------------------------------------------------
(* C14 *)

\* C14: when flag parsing fails at the node where resolution stops: with a
\* custom error handler set, the handler is invoked exactly once, with that
\* node's command path and the parse error, Run returns exactly what the
\* handler returns, nil included, and no action runs; with none, the error
\* Run returns embeds the parse error and the command path in the text with
\* the --help hint
C14_ErrorHandlerDecides ==
    LET k    == calls[1]
        at   == Resolved(cmds, cli.rootCommand, k.args)
        p    == ParseAt(cmds, at.c, at.args)
        path == JoinSpaces(PathNames(cmds, Chain(cmds, at.c)))
    IN  (k.pc = "done" /\ at.args # <<>> /\ p.err # "")
        => /\ ActionsOf(k) = {}
           /\ k.obs = <<>>
           /\ NumEvents(k, "help") + NumEvents(k, "helpHandler") + NumEvents(k, "default") = 0
           /\ cli.errorHandler
                => /\ NumEvents(k, "errorHandler") = 1
                   /\ \A i \in EventsOf(k, "errorHandler") :
                        /\ k.evs[i].c = at.c
                        /\ k.evs[i].arg = <<path, p.err>>
                        /\ k.err = Returned("errorHandler", k.evs[i].res = "nil")
           /\ ~cli.errorHandler
                => /\ NumEvents(k, "errorHandler") = 0
                   /\ k.err.kind = "parse"
                   /\ Message(k.err) = "Error: " \o p.err \o "\nSee '" \o path \o " --help' for usage"

\* --fmt with no value after hello, which has an action, and an error
\* handler that returns nil: the handler got "app hello" and the flag
\* package's error, Run returned nil, and the action did not run
C14_Witness ==
    /\ cli.errorHandler
    /\ cmds[2].actionCallback
    /\ calls[1].pc = "done"
    /\ calls[1].args = <<"hello", "--fmt">>
    /\ calls[1].evs = << Ev("parse", 2),
                         [Called("errorHandler", 2, TRUE)
                            EXCEPT !.arg = <<"app hello", "flag needs an argument">>] >>
    /\ calls[1].err = Nil
    /\ calls[1].obs = <<>>

-----------------------------------------------------------------------------
(* C15 *)

\* some node on the parent chain of c, c included, is the wrapper's root
UnderWrapper(cs, c) == \E i \in 1..Len(Chain(cs, c)) : cs[Chain(cs, c)[i]].app

\* C15: a run entered at a node from which no wrapper is reachable (one that
\* was never attached and is run as the default command, or one that
\* AddCommand moved under such a node and the root still descends into)
\* returns the configuration error before any child lookup, flag parsing,
\* help or action, whatever the arguments it is entered with: the call ends
\* at that node with its arguments untouched, nothing parsed, nothing
\* written, no callback but the pre-run hook invoked
C15_NoWrapperIsAConfigurationError ==
    LET k == calls[1]
    IN  /\ (k.pc = "act" /\ k.c # 0) => UnderWrapper(cmds, k.c)
        /\ (k.pc = "done" /\ k.c # 0 /\ ~UnderWrapper(cmds, k.c))
            => /\ k.err = Err("config", "", "")
               /\ \A i \in 1..Len(k.evs) : k.evs[i].ev \in {"preRun", "default"}
               /\ \A i \in 1..Len(k.evs) : k.evs[i].c # k.c
               /\ k.ctx.fv = <<>>
               /\ k.obs = <<>> /\ k.buf = <<>> /\ stdout = <<>>
               /\ heap = InitHeap
               /\ k.rest = (IF NumEvents(k, "default") = 0 THEN Tail(k.args) ELSE <<>>)

\* lost.AddCommand(hello) was called on the never attached node lost, and
\* Run("hello", "--help") descended from the root into hello: the
\* configuration error, and no help
C15_Witness ==
    /\ cmds[2].parent = Lost
    /\ calls[1].pc = "done"
    /\ calls[1].args = <<"hello", "--help">>
    /\ calls[1].c = 2
    /\ calls[1].rest = <<"--help">>
    /\ calls[1].err = Err("config", "", "")
    /\ calls[1].buf = <<>>

-----------------------------------------------------------------------------
(* C16 *)

\* the parts of the help of node c: the banner, the title for a node other
\* than the root, the long description and the child listing when there are
\* any, and the closing line
HelpParts(cs, c) ==
    {"banner", "end"}
        \cup (IF cs[c].parent # 0 THEN {"title"} ELSE {})
        \cup (IF cs[c].longdescription # "" THEN {"long"} ELSE {})
        \cup (IF cs[c].subCommands # <<>> THEN {"commands"} ELSE {})

\* C16: when the scope of a Run carries a destination, everything the core
\* prints during the Run (banner, title, long description, child listing,
\* flag defaults) is written to that destination and nothing to the
\* process's standard output; so the bytes RunBuffer returns for a help
\* request hold every part of the help
C16_AllOutputToTheScope ==
    LET k == calls[1]
    IN  (k.pc = "done" /\ Stdout(k.ctx) = "buf")
        => /\ stdout = <<>>
           /\ \A i \in EventsOf(k, "help") :
                HelpParts(cmds, k.evs[i].c)
                    \subseteq {k.buf[j].what : j \in 1..Len(k.buf)}

\* RunBuffer("--help"): the banner, the flag defaults and the closing line are
\* in the returned bytes, the listing of the root's children is on the
\* process's standard output
C16_Witness ==
    /\ calls[1].pc = "done"
    /\ calls[1].entry = "RunBuffer"
    /\ calls[1].args = <<"--help">>
    /\ calls[1].evs = << Ev("parse", 1), Ev("help", 1) >>
    /\ [i \in 1..Len(calls[1].buf) |-> calls[1].buf[i].what] = <<"banner", "flags", "end">>
    /\ [i \in 1..Len(stdout) |-> stdout[i].what] = <<"commands">>
    /\ stdout[1].by = 1

-----------------------------------------------------------------------------
(* C17 *)

\* C17: default delegation is decided on the positional arguments that
\* remain after flag parsing: at a node with no action, when the default
\* command is another node and the parse (if any) succeeded without the help
\* flag and left no positional argument, as for the arguments --ui alone, the
\* run delegates to the default command with an empty argument list
C17_DelegatesOnResidualArguments ==
    LET k  == calls[1]
        at == Resolved(cmds, cli.rootCommand, k.args)
        p  == ParseAt(cmds, at.c, at.args)
    IN  (/\ k.pc = "done"
         /\ ~cmds[at.c].actionCallback
         /\ cli.defaultCommand \notin {0, at.c}
         /\ at.args # <<>> => (p.err = "" /\ ~HelpSet(p) /\ p.fv.args = <<>>))
        => /\ \E i \in 1..Len(k.evs) : k.evs[i] = Ev("default", at.c)
           /\ k.c = cli.defaultCommand
           /\ k.rest = <<>>

\* --ui at the root, which has no action, with hello, which has one, as the
\* default command and a help handler set: the parse left no positional
\* argument, and the run went to the help handler; the action of hello did
\* not run
C17_Witness ==
    /\ calls[1].pc = "done"
    /\ calls[1].args = <<"--ui">>
    /\ ~cmds[1].actionCallback
    /\ cmds[2].actionCallback
    /\ cli.defaultCommand = 2
    /\ cli.helpHandler
    /\ OtherArgs(calls[1].ctx) = <<>>
    /\ calls[1].evs = << Ev("parse", 1), Called("helpHandler", 1, TRUE) >>
    /\ calls[1].c = 1

-----------------------------------------------------------------------------
(* C18 *)

\* the names declared on some node of the tree other than c
DeclaredElsewhere(cs, c) == UNION {DOMAIN cs[d].flags : d \in (1..Len(cs)) \ {c}}

\* C18: in a Run flags are parsed at most once, at the node where descent
\* stops and against that node's schema only: no node that handed the run
\* to a matched child is parsed, the flag values of the scope are the cells
\* of that node's declarations and the help flag, and a flag that only
\* another node declares (an ancestor's at the terminal node, a child's at
\* the parent) is an unknown flag there
C18_OnlyTheTerminalSchema ==
    LET k   == calls[1]
        at  == Resolved(cmds, cli.rootCommand, k.args)
        run == FlagRun(cmds[at.c].flags, at.args, EmptyMap)
    IN  /\ NumEvents(k, "parse") <= 1
        /\ \A i \in EventsOf(k, "parse") :
                k.evs[i].c = at.c /\ k.evs[i].c \notin Passed(cmds, cli.rootCommand, k.args)
        /\ k.ctx.fv # <<>>
            => DOMAIN k.ctx.fv[1].vals = DOMAIN cmds[at.c].flags \cup {"help"}
        /\ (/\ k.pc = "done"
             /\ k.err.kind \notin {"preRun", "config"}
             /\ run.rest # <<>>
             /\ \E nm \in DeclaredElsewhere(cmds, at.c) \ DOMAIN cmds[at.c].flags :
                    Head(run.rest) = FlagToken(nm))
            => /\ NumEvents(k, "parse") = 1
               /\ k.err.kind = "parse"
               /\ k.err.cause = "flag provided but not defined"
               /\ ActionsOf(k) = {}

\* hello --ui: ui is declared on the root only, and the parse at hello, the
\* only one of the call, does not know it
C18_Witness ==
    /\ calls[1].pc = "done"
    /\ calls[1].args = <<"hello", "--ui">>
    /\ "ui" \in DOMAIN cmds[1].flags
    /\ "ui" \notin DOMAIN cmds[2].flags
    /\ calls[1].evs = << Ev("parse", 2) >>
    /\ calls[1].err = Err("parse", "app hello", "flag provided but not defined")

-----------------------------------------------------------------------------
(* C19 *)

\* a bound on the steps call k has left: the arguments not yet consumed, the
\* steps left at the current node, and those of a run of the default
\* command while none has happened
Variant(k) ==
    CASE k.pc = "done"   -> 0
      [] k.pc = "idle"   -> 0
      [] k.pc = "prerun" -> Len(k.args) + 4 + 3
      [] k.pc = "run"    -> Len(k.rest) + 3 + (IF NumEvents(k, "default") = 0 THEN 3 ELSE 0)
      [] k.pc = "act"    -> Len(k.rest) + 2 + (IF NumEvents(k, "default") = 0 THEN 3 ELSE 0)

\* the run of the default command, which has no action, ended call k: at the
\* help handler, whose result is returned, or at the help of the default
\* command and ErrHelp
EndsWithoutAction(k) ==
    LET last == k.evs[Len(k.evs)]
    IN  /\ k.c = cli.defaultCommand
        /\ NumEvents(k, "action") = 0
        /\ IF cli.helpHandler
           THEN /\ last.ev = "helpHandler" /\ last.c = cli.defaultCommand
                /\ k.err = Returned("helpHandler", last.res = "nil")
           ELSE /\ last = Ev("help", cli.defaultCommand)
                /\ k.err = ErrHelp

\* the step is a descent of call 1 into a child
IsDescent ==
    /\ calls[1].pc = "run" /\ calls'[1].pc = "run"
    /\ calls'[1].c # calls[1].c

\* C19: every Run terminates, for every argument list and tree: a call that
\* has started returns, each of its steps lowers a bound that starts at the
\* number of arguments plus seven, each descent consumes exactly one
\* argument, the child's name, there is at most one default delegation in a
\* Run, and when the default command has no action the delegated run ends at
\* the help handler or at help and ErrHelp
C19_EveryRunTerminates ==
    /\ [](/\ NumEvents(calls[1], "default") <= 1
          /\ Variant(calls[1]) >= 0
          /\ calls[1].pc \notin {"idle", "done"} => Variant(calls[1]) > 0
          /\ (/\ calls[1].pc = "done"
              /\ NumEvents(calls[1], "default") = 1
              /\ UnderWrapper(cmds, cli.defaultCommand)
              /\ ~cmds[cli.defaultCommand].actionCallback)
             => EndsWithoutAction(calls[1]))
    /\ [][/\ calls[1].pc \notin {"idle", "done"} => Variant(calls'[1]) < Variant(calls[1])
          /\ IsDescent
             => /\ calls[1].rest # <<>>
                /\ cmds[calls'[1].c].name = Head(calls[1].rest)
                /\ calls'[1].rest = Tail(calls[1].rest)
                /\ calls'[1].evs = calls[1].evs]_vars
    /\ (calls[1].pc # "idle") ~> (calls[1].pc = "done")

\* Run("hello") with hello without an action and the root, without an action
\* either, as the default command: one descent, one delegation, and the run
\* of the root ended with its help and ErrHelp
C19_Witness ==
    /\ calls[1].pc = "done"
    /\ calls[1].args = <<"hello">>
    /\ cli.defaultCommand = 1
    /\ ~cli.helpHandler
    /\ calls[1].evs = << Ev("default", 2), Ev("help", 1) >>
    /\ calls[1].err = ErrHelp

-----------------------------------------------------------------------------
(* C20 *)

\* the cells the scope of call k holds: those of its flag values
ScopeCells(k) ==
    IF k.ctx.fv = <<>> THEN {}
    ELSE {k.ctx.fv[1].vals[nm].addr : nm \in DOMAIN k.ctx.fv[1].vals}

\* C20: a Run, RunBuffer or RunLine, whether it ends in an action, a parse
\* failure or help, leaves the configured tree as it was: no step of a call
\* changes a node (children, parent, action, hidden, flag schema) or the
\* wrapper (root, default command, hook, handlers); the flag cells a call
\* makes are held by its scope only, no declaration of a node points to one,
\* and none is left when the call has returned
C20_RunLeavesTheTreeUnchanged ==
    /\ [][calls' # calls => (cmds' = cmds /\ cli' = cli)]_vars
    /\ [](/\ \A c \in 1..Len(cmds) : \A nm \in DOMAIN cmds[c].flags :
                cmds[c].flags[nm].ptr \in {NilPtr} \cup {Ptr(kind, a) : kind \in Kinds, a \in DOMAIN InitHeap}
          /\ \A a \in DOMAIN heap \ DOMAIN InitHeap :
                /\ calls[a.call].pc \notin {"idle", "done"}
                /\ a \in ScopeCells(calls[a.call]))

\* RunLine of the line " hello  --help" with a tab at its end: the help of
\* hello was rendered after a parse, and tree and wrapper are as configured
C20_Witness ==
    /\ calls[1].pc = "done"
    /\ calls[1].entry = "RunLine"
    /\ calls[1].args = <<"hello", "--help">>
    /\ calls[1].evs = << Ev("parse", 2), Ev("help", 2) >>
    /\ calls[1].err = Nil
    /\ cmds = [StepTree EXCEPT ![1].actionCallback = TRUE]
    /\ cli = [NewCliObject EXCEPT !.defaultCommand = 2]

-----------------------------------------------------------------------------
(* Tree building with NewCommand, NewSubCommand and AddCommand *)

\* nodes of a built tree, and calls of AddCommand (those NewSubCommand makes
\* included) in one history
MaxBuildNodes == 3

MaxBuildCalls == 3

BuildNames == {"hello", "sub"}

InitBuild ==
    /\ cmds = NewCli("app")
    /\ cli = NewCliObject
    /\ Quiet

\* one call c.AddCommand(command) as the history keeps it
Added(c, command) == [c |-> c, command |-> command]

\* NewCommand(nm, ...): a node of its own, attached nowhere
BuildNewCommand(nm) ==
    /\ Len(cmds) < MaxBuildNodes
    /\ cmds' = Append(cmds, NewCommand(nm))
    /\ UNCHANGED <<cli, heap, stdout, calls, regs>>

\* c.NewSubCommand(nm, ...)
BuildNewSubCommand(c, nm) ==
    /\ Len(cmds) < MaxBuildNodes
    /\ Len(regs) < MaxBuildCalls
    /\ cmds' = NewSubCommand(cmds, c, nm)
    /\ regs' = Append(regs, Added(c, Len(cmds) + 1))
    /\ UNCHANGED <<cli, heap, stdout, calls>>

\* c.AddCommand(command), or SubCommands(command), on any node the program
\* holds: the root command itself is held by the wrapper only, so it is the
\* receiver (Cli.SubCommands) and never the argument
BuildAddCommand(c, command) ==
    /\ Len(regs) < MaxBuildCalls
    /\ command # 1
    /\ cmds' = AddCommand(cmds, c, command)
    /\ regs' = Append(regs, Added(c, command))
    /\ UNCHANGED <<cli, heap, stdout, calls>>

NextBuild ==
    \/ \E nm \in BuildNames : BuildNewCommand(nm)
    \/ \E c \in 1..Len(cmds), nm \in BuildNames : BuildNewSubCommand(c, nm)
    \/ \E c \in 1..Len(cmds), command \in 1..Len(cmds) : BuildAddCommand(c, command)

SpecBuild == InitBuild /\ [][NextBuild]_vars

-----------------------------------------------------------------------------
(* C21 *)

\* the walk from c along parent reaches a node without a parent in i steps
RECURSIVE ReachesTop(_, _, _)
ReachesTop(cs, c, i) ==
    \/ cs[c].parent = 0
    \/ i > 0 /\ ReachesTop(cs, cs[c].parent, i - 1)

\* the calls of AddCommand that had node n as their argument
AddedAs(n) == {i \in 1..Len(regs) : regs[i].command = n}

\* the nodes in the child sequence of node c
Children(cs, c) == {cs[c].subCommands[i] : i \in 1..Len(cs[c].subCommands)}

\* C21: after any sequence of NewSubCommand and AddCommand calls the nodes
\* form a tree: no node is its own ancestor, the parent of a node was set by
\* one call and by no other (a node never added has none), and a node is in
\* the child sequence of node p exactly when p is its parent
C21_NodesFormATree ==
    \A n \in 1..Len(cmds) :
        /\ ReachesTop(cmds, n, Len(cmds))
        /\ Cardinality(AddedAs(n)) <= 1
        /\ cmds[n].parent # 0 <=> AddedAs(n) # {}
        /\ \A i \in AddedAs(n) : cmds[n].parent = regs[i].c
        /\ \A p \in 1..Len(cmds) : n \in Children(cmds, p) <=> cmds[n].parent = p

\* hello := root.NewSubCommand("hello"); sub := hello.NewSubCommand("sub");
\* sub.AddCommand(hello): hello and sub are each other's parent, and the root
\* still lists hello
C21_Witness ==
    /\ regs = << Added(1, 2), Added(2, 3), Added(3, 2) >>
    /\ cmds[2].parent = 3
    /\ cmds[3].parent = 2
    /\ cmds[1].subCommands = <<2>>
    /\ ~ReachesTop(cmds, 2, Len(cmds))

-----------------------------------------------------------------------------
(* C22 *)

\* C22: the names of the direct children of a node are pairwise distinct, and
\* the name-to-child map agrees with the child sequence: every node in the
\* sequence is the one the map gives for its name, so a child that help lists
\* is the child that its name as the first argument reaches
C22_MapAgreesWithChildren ==
    \A c \in 1..Len(cmds) :
        LET subs == cmds[c].subCommands
        IN  /\ \A i, j \in 1..Len(subs) :
                   i # j => cmds[subs[i]].name # cmds[subs[j]].name
            /\ \A i \in 1..Len(subs) :
                   MapGet(cmds[c].subCommandsMap, cmds[subs[i]].name, 0) = subs[i]

\* root.NewSubCommand("hello") twice: help lists both nodes under the name
\* hello, and the name reaches the second only
C22_Witness ==
    /\ regs = << Added(1, 2), Added(1, 3) >>
    /\ cmds[1].subCommands = <<2, 3>>
    /\ cmds[2].name = "hello"
    /\ cmds[3].name = "hello"
    /\ Listing(cmds, cli, cmds[1].subCommands) = << "hello", "hello" >>
    /\ MapGet(cmds[1].subCommandsMap, "hello", 0) = 3

-----------------------------------------------------------------------------
(* C23 *)

\* call k was started with a flag the root declares as its first argument
\* and the name of a child of the root somewhere after it
FlagBeforeChild(k) ==
    /\ k.pc # "idle"
    /\ k.args # <<>>
    /\ \E nm \in DOMAIN cmds[cli.rootCommand].flags : Head(k.args) = FlagToken(nm)
    /\ \E i \in 2..Len(k.args) : MapGet(cmds[cli.rootCommand].subCommandsMap, k.args[i], 0) # 0

\* C23: child lookup looks at args[0] only. In a call whose first argument
\* is a flag of the root and a later one a child's name, the child is never
\* dispatched (the call stays at the root, and every parse, action, help or
\* handler event is the root's), no action but the root's runs, there is no
\* delegation, the flags are parsed at the root, once; and when the child's
\* name ends the run of flags it is the first residual positional argument,
\* in the scope and in what the root's action gets from OtherArgs
C23_ChildLookupAtFirstArgumentOnly ==
    \A id \in CallIds :
        LET k    == calls[id]
            root == cli.rootCommand
            run  == FlagRun(cmds[root].flags, k.args, EmptyMap)
        IN  FlagBeforeChild(k)
            => /\ k.c \in {0, root}
               /\ \A i \in 1..Len(k.evs) : k.evs[i].ev # "preRun" => k.evs[i].c = root
               /\ ActionsOf(k) \subseteq {root}
               /\ NumEvents(k, "default") = 0
               /\ (k.pc \in {"act", "done"} /\ k.err.kind \notin {"preRun", "config"})
                    => /\ NumEvents(k, "parse") = 1
                       /\ \A i \in EventsOf(k, "parse") : k.evs[i].c = root
               /\ (/\ run.ends
                   /\ MapGet(cmds[root].subCommandsMap, Head(run.rest), 0) # 0
                   /\ k.pc \in {"act", "done"}
                   /\ k.err.kind \notin {"preRun", "config"})
                    => /\ k.ctx.fv # <<>>
                       /\ OtherArgs(k.ctx) = run.rest
                       /\ Head(OtherArgs(k.ctx)) = cmds[cmds[root].subCommandsMap[Head(run.rest)]].name
                       /\ \A i \in 1..Len(k.obs) : k.obs[i].other = run.rest

\* Run("--ui", "hello") with actions on the root and on hello: the root's
\* action ran with ui true and hello as its only positional argument
C23_Witness ==
    /\ calls[1].pc = "done"
    /\ calls[1].args = <<"--ui", "hello">>
    /\ cmds[1].actionCallback
    /\ cmds[2].actionCallback
    /\ MapGet(cmds[1].subCommandsMap, "hello", 0) = 2
    /\ ActionsOf(calls[1]) = {1}
    /\ Len(calls[1].obs) = 1
    /\ calls[1].obs[1].bool["ui"] = "true"
    /\ calls[1].obs[1].other = <<"hello">>

-----------------------------------------------------------------------------
(* Runs on a chain deeper than maxDepth *)

\* the depth of the deepest node of the chain (the root has depth 0)
MaxChain == 11

\* n times the name every node below the root has
Subs(n) == [i \in 1..n |-> "sub"]

DeepInputs == {Subs(n) : n \in 0..(MaxChain + 1)}

InitDeep ==
    /\ cmds = NewCli("app")
    /\ cli = NewCliObject
    /\ Quiet

\* c.NewSubCommand("sub", ...).Action(callback) on the deepest node
Deepen ==
    /\ Configuring
    /\ Len(cmds) <= MaxChain
    /\ cmds' = CommandAction(NewSubCommand(cmds, Len(cmds), "sub"), Len(cmds) + 1, TRUE)
    /\ UNCHANGED <<cli, heap, stdout, calls, regs>>

NextDeep ==
    \/ Deepen
    \/ \E c \in 0..Len(cmds) : DefaultCommand(c)
    \/ Configuring /\ \E args \in DeepInputs : StartRun(1, args)
    \/ Proceeding

SpecDeep == InitDeep /\ [][NextDeep]_vars

-----------------------------------------------------------------------------
(* C24 *)

\* C24: in a well-formed tree the wrapper lookup visits the node and at most
\* 9 ancestors: it finds the wrapper exactly from the nodes of depth 9 or
\* less. A call gets past the wrapper check only at such a node and only
\* their actions run; run on a node of depth 10 or more, reached by descent
\* or as the default command, returns "Command not setup correctly" (and
\* nothing else does), with no parse and no action; so a call whose
\* arguments name a chain of 10 or more nodes ends with that error at the
\* node of depth 10 and never runs the action of the node it names, while
\* one that names a node of depth 1 to 9 runs that node's action
C24_WrapperLookupVisitsTenNodes ==
    /\ \A c \in 1..Len(cmds) : getCli(cmds, c) <=> Depth(cmds, c) <= 9
    /\ \A id \in CallIds :
        LET k  == calls[id]
            at == Resolved(cmds, cli.rootCommand, k.args)
        IN  /\ k.pc = "act" => Depth(cmds, k.c) <= 9
            /\ \A c \in ActionsOf(k) : Depth(cmds, c) <= 9
            /\ (k.pc = "done" /\ k.c # 0)
                => (k.err = Err("config", "", "") <=> Depth(cmds, k.c) >= 10)
            /\ k.err.kind = "config"
                => /\ ActionsOf(k) = {}
                   /\ k.obs = <<>>
                   /\ NumEvents(k, "parse") = 0
            /\ (k.pc = "done" /\ k.c # 0 /\ Depth(cmds, at.c) >= 10)
                => /\ k.err = Err("config", "", "")
                   /\ Depth(cmds, k.c) = 10
                   /\ at.c \notin ActionsOf(k)
            /\ (k.pc = "done" /\ k.c # 0 /\ Depth(cmds, at.c) \in 1..9)
                => /\ k.err.kind # "config"
                   /\ cmds[at.c].actionCallback => ActionsOf(k) = {at.c}

\* Run with "sub" ten times on a chain of depth 10 or more, every node but
\* the root with an action: the call ended at the node of depth 10 with the
\* configuration error and no action ran
C24_Witness ==
    /\ calls[1].pc = "done"
    /\ calls[1].args = Subs(10)
    /\ Len(cmds) >= 11
    /\ Depth(cmds, 11) = 10
    /\ cmds[11].actionCallback
    /\ calls[1].c = 11
    /\ calls[1].err = Err("config", "", "")
    /\ calls[1].evs = <<>>

====
